---- MODULE Spec2Model ----
(***************************************************************************)
(* State-machine model of the FSTS ingestion pipeline and query engine:    *)
(*   - PipelineCache          (backend/src/utils/cache_manager.py)         *)
(*   - retry_with_backoff     (backend/src/database/supabase_client.py)    *)
(*   - process_data_pipeline  (backend/main.py)                            *)
(*   - FSTQueryEngine.query   (backend/src/qa/question_answering.py)       *)
(* Each part has its own specification over the shared variables; the      *)
(* variables a specification does not use stay at their initial values.    *)
(***************************************************************************)
EXTENDS Integers, Sequences, FiniteSets, TLC

VARIABLES
    \* ---- file system under the data directory
    content,          \* path -> content of the file (Absent when there is none)
    mtime,            \* path -> modification time of the file
    clock,            \* wall clock of the file system
    \* ---- PipelineCache
    processed_files,  \* self.processed_files: path -> record (NoRec when no key)
    index_file,       \* processed_files.json on disk
    cache_pc,         \* "open" | "writing" | "crashed"
    \* ---- history variables of the cache
    lastMarked,       \* path -> content the file had when last marked (Absent: never)
    durable,          \* the records of the last completed save_processed_files
    last_op,          \* the last file-system or cache operation and its subject
    \* ---- retry_with_backoff wrapper
    r_retries, r_backoff, r_plan, r_attempts, r_invocations, r_slept, r_pc,
    \* ---- process_data_pipeline
    chunk_cache,      \* file_id -> the "<file_id>_chunks.json" entry (<<>>: no file)
    emb_cache,        \* the shared "embeddings.json" entry (<<>>: no file)
    store,            \* the persisted vector store: index.faiss + index.json
    pl_pc,            \* "idle" | "files" | "embed" | "store" | "done"
    pl_files,         \* pdf_files of the run
    pl_i,             \* position of the loop over pdf_files
    all_chunks, all_processed,
    docs_emb,         \* chunks_with_embeddings
    pl_result,        \* what the run returned: "none" | "true" | "false"
    runs,             \* number of runs started
    \* ---- history variables of the pipeline
    produced,         \* path -> the chunks produced by the run that last marked it
    contrib,          \* the last contribution of a file served from the chunk cache
    store_at_start,   \* the persisted store when the run started
    run_unchanged,    \* every file of the folder was processed when the run started
    raised_at,        \* the file at which a stage raised in this run (<<>>: none)
    visited,          \* the files the loop of this run has reached
    \* ---- FSTQueryEngine
    q_store,          \* self.vector_store: "none" (None) | "empty" | "loaded"
    q_chain,          \* self.qa_chain is not None
    q_pc,             \* position inside query()
    q_question,       \* the question: the set of vocabulary words it contains
    q_normalized,     \* normalized_question
    q_formation, q_intent,
    q_docs,           \* number of passages in relevant_docs
    q_llm,            \* qa_result of the chain
    response,         \* the response dict of query()
    q_err,            \* the exception in flight
    \* ---- history variables of the query
    q_failures,       \* the stages that failed during this query
    q_outcome,        \* "none" | "returned" | "raised": how query() ended
    \* ---- VectorStoreManager and the vector-store stage of the pipeline
    vs_faiss_file,    \* index.faiss: the vectors of the ANN index
    vs_json_file,     \* index.json: docstore and index_to_docstore_id
    vs_store,         \* the FAISS object in memory during a run
    vs_pc,            \* "idle" | "appending"
    vs_docs,          \* docs_with_embeddings of the append in progress
    vs_i,             \* start offset of the next batch
    vs_next,          \* number of passages and of docstore ids handed out so far
    \* ---- history variables of the vector store
    vs_last_save,     \* "none" | "ok" | "failed": what the last save_faiss returned
    vs_failed,        \* start offsets of the batches that failed in this append
    vs_pre,           \* the docstore as loaded when this append started
    vs_created,       \* the store as create_vector_store built it last
    vs_loaded,        \* what the last load_faiss returned
    \* ---- FSTQueryEngine._get_relevant_documents
    g_docs,           \* docs: the result of similarity_search
    g_module_docs,    \* module_docs: the result of max_marginal_relevance_search
    g_all_docs, g_seen_ids, g_unique_docs,
    g_k,              \* position of the loop over all_docs
    g_pc,             \* "search" | "loop" | "returned"
    \* ---- FSSTEmbedder.similarity_search
    s_documents,      \* documents: each with its id and the level of its embedding
    s_query,          \* query_embedding: 0 when embed_query fell back to zeros
    s_top_k,
    s_similarities,   \* the list of (similarity, i) tuples
    s_result,         \* the documents returned
    s_pc,             \* "start" | "scored" | "sorted" | "returned"
    \* ---- FSSTEmbedder.embed_documents
    e_documents,      \* the documents given to embed_documents
    e_processed,      \* processed_docs
    e_texts,          \* texts: the augmented text of each processed document
    e_embeddings,     \* embeddings
    e_i,              \* start of the next batch (0-based)
    e_failed,         \* starts of the batches on which the model raised
    e_prev,           \* the chunk_id and source an earlier call on equal documents returned
    e_pc,             \* "start" | "coerced" | "batches" | "embedded" | "returned"
    \* ---- VectorStoreManager.create_vector_store
    c_documents,      \* documents: each input with its Python type
    c_valid_docs,     \* valid_docs
    c_i,              \* position of the validation loop (0-based)
    c_embed_ok,       \* whether FAISS.from_documents can embed
    c_result,         \* "running" | "none" | "store"
    \* ---- FSSTChunker._calculate_structure_confidence
    t_lines,          \* the text: how many of its lines are of each kind
    t_confidence,     \* the value returned, as a fraction
    t_pc,             \* "text" | "scored"
    \* ---- FSSTChunker.chunk_documents
    k_documents,      \* documents: each with its content and the keys of its metadata
    k_i,              \* position of the loop of _safe_split_documents (0-based)
    k_all_chunks,     \* all_chunks
    k_result,         \* the chunks returned
    k_pc,             \* "split" | "fallback" | "returned"
    \* ---- the intermediate results of PipelineCache, as files of the cache directory
    a_files,          \* (stage, file_id) -> the "<file_id>_<stage>.json" file
    a_result,         \* what load_intermediate_result gave, if it was the last operation
    a_wiped,          \* the last clear_cache removed a record and a readable entry
    \* ---- the passages of the loaded vector index, as a query reads them
    x_docstore,       \* the passages held by the index (its in-memory docstore)
    x_docs,           \* relevant_docs: references into the docstore
    x_modules,        \* what _aggregate_modules returned
    x_queries,        \* queries answered
    x_pc,             \* "idle" | "retrieved" | "built"
    x_loaded          \* the docstore as it was loaded

cacheVars == <<content, mtime, clock, processed_files, index_file, cache_pc,
               lastMarked, durable, last_op>>
retryVars == <<r_retries, r_backoff, r_plan, r_attempts, r_invocations, r_slept, r_pc>>
pipeVars == <<chunk_cache, emb_cache, store, pl_pc, pl_files, pl_i, all_chunks,
              all_processed, docs_emb, pl_result, runs, produced, contrib,
              store_at_start, run_unchanged, raised_at, visited>>
queryVars == <<q_store, q_chain, q_pc, q_question, q_normalized, q_formation, q_intent,
               q_docs, q_llm, response, q_err, q_failures, q_outcome>>
storeVars == <<vs_faiss_file, vs_json_file, vs_store, vs_pc, vs_docs, vs_i, vs_next,
               vs_last_save, vs_failed, vs_pre, vs_created, vs_loaded>>
mergeVars == <<g_docs, g_module_docs, g_all_docs, g_seen_ids, g_unique_docs, g_k, g_pc>>
searchVars == <<s_documents, s_query, s_top_k, s_similarities, s_result, s_pc>>
embedVars == <<e_documents, e_processed, e_texts, e_embeddings, e_i, e_failed, e_prev, e_pc>>
createVars == <<c_documents, c_valid_docs, c_i, c_embed_ok, c_result>>
confVars == <<t_lines, t_confidence, t_pc>>
splitVars == <<k_documents, k_i, k_all_chunks, k_result, k_pc>>
artifactVars == <<a_files, a_result, a_wiped>>
contextVars == <<x_docstore, x_docs, x_modules, x_queries, x_pc, x_loaded>>
vars == <<cacheVars, retryVars, pipeVars, queryVars, storeVars, mergeVars, searchVars, embedVars, createVars, confVars, splitVars, artifactVars, contextVars>>
nonCacheVars == <<retryVars, pipeVars, queryVars, storeVars, mergeVars, searchVars, embedVars, createVars, confVars, splitVars, artifactVars, contextVars>>
nonRetryVars == <<cacheVars, pipeVars, queryVars, storeVars, mergeVars, searchVars, embedVars, createVars, confVars, splitVars, artifactVars, contextVars>>
nonPipeVars == <<retryVars, queryVars, storeVars, mergeVars, searchVars, embedVars, createVars, confVars, splitVars, artifactVars, contextVars>>
nonQueryVars == <<cacheVars, retryVars, pipeVars, storeVars, mergeVars, searchVars, embedVars, createVars, confVars, splitVars, artifactVars, contextVars>>
nonStoreVars == <<cacheVars, retryVars, pipeVars, queryVars, mergeVars, searchVars, embedVars, createVars, confVars, splitVars, artifactVars, contextVars>>
nonMergeVars == <<cacheVars, retryVars, pipeVars, queryVars, storeVars, searchVars, embedVars, createVars, confVars, splitVars, artifactVars, contextVars>>
nonSearchVars == <<cacheVars, retryVars, pipeVars, queryVars, storeVars, mergeVars, embedVars, createVars, confVars, splitVars, artifactVars, contextVars>>
nonEmbedVars == <<cacheVars, retryVars, pipeVars, queryVars, storeVars, mergeVars, searchVars, createVars, confVars, splitVars, artifactVars, contextVars>>
nonCreateVars == <<cacheVars, retryVars, pipeVars, queryVars, storeVars, mergeVars, searchVars, embedVars, confVars, splitVars, artifactVars, contextVars>>
nonConfVars == <<cacheVars, retryVars, pipeVars, queryVars, storeVars, mergeVars, searchVars, embedVars, createVars, splitVars, artifactVars, contextVars>>
nonSplitVars == <<cacheVars, retryVars, pipeVars, queryVars, storeVars, mergeVars, searchVars, embedVars, createVars, confVars, artifactVars, contextVars>>
nonArtifactVars == <<cacheVars, retryVars, pipeVars, queryVars, storeVars, mergeVars, searchVars, embedVars, createVars, confVars, splitVars, contextVars>>
pipeRunVars == <<store, pl_pc, pl_files, pl_i, all_chunks,
              all_processed, docs_emb, pl_result, runs, produced, contrib,
              store_at_start, run_unchanged, raised_at, visited>>
nonCacheArtifactVars == <<retryVars, pipeVars, queryVars, storeVars, mergeVars, searchVars, embedVars, createVars, confVars, splitVars, contextVars>>
nonCacheFileVars == <<retryVars, pipeRunVars, queryVars, storeVars, mergeVars, searchVars, embedVars, createVars, confVars, splitVars, contextVars>>
nonContextVars == <<cacheVars, retryVars, pipeVars, queryVars, storeVars, mergeVars, searchVars, embedVars, createVars, confVars, splitVars, artifactVars>>

---------------------------------------------------------------------------
(* Bounds *)
MaxContent == 2
MaxClock == 3
MaxRetries == 3
MaxChunks == 2
MaxRuns == 2
MaxEdits == 1
MaxDocs == 2
MaxCreate == 2
MaxAppend == 5
MaxPassages == 7
MaxResults == 2
MaxCandidates == 3
MaxLevel == 2
MaxEmbedDocs == 3
MaxUuid == 2
MaxInputs == 3
MaxLines == 10
MaxSplitDocs == 3
MaxPieces == 2
MaxItems == 2
MaxStored == 2
MaxQueries == 2

---------------------------------------------------------------------------
(* Files.  A path is the sequence of the pieces of its base name, so that   *)
(* the removal of every ".pdf" piece can be computed.                       *)
Paths == { <<"a", ".pdf">>, <<"a", ".pdf", ".pdf">>, <<"b", ".pdf">> }
Absent == 0
Contents == 1 .. MaxContent

(* hashlib.md5 over the file's bytes: a function of the content alone,      *)
(* injective over the bounded content set.                                  *)
HashCollide(c) == 11
get_file_hash(c) == (c * 37 + 11) % 101

NoHash == -1
NoMeta == -1
NoRec == [hash |-> NoHash, metadata |-> NoMeta]
EmptyMeta == 0
EmptyIndex == [p \in Paths |-> NoRec]

(* json.load of processed_files.json; a missing or unparsable file gives {} *)
load_processed_files(f) ==
    IF f.kind = "json" THEN f.data ELSE EmptyIndex

JsonFile(pf) == [kind |-> "json", data |-> pf]
AbsentFile == [kind |-> "absent", data |-> EmptyIndex]
(* a file opened with mode 'w' and not yet fully written: no valid JSON    *)
TruncatedFile == [kind |-> "truncated", data |-> EmptyIndex]

(* is_file_processed: the record is looked up by the path string *)
IsProcessedByContent(pf, p, c) ==
    \E q \in Paths : pf[q] # NoRec /\ pf[q].hash = get_file_hash(c)
is_file_processed(pf, p, c) ==
    IF pf[p] # NoRec THEN pf[p].hash = get_file_hash(c) ELSE FALSE

IsProcessed(p) == is_file_processed(processed_files, p, content[p])

(* mark_file_as_processed: the in-memory upsert *)
mark_file_as_processed(pf, p, c, meta) ==
    [pf EXCEPT ![p] = [hash |-> get_file_hash(c), metadata |-> meta]]

NoOp == [op |-> "none", path |-> <<>>, to |-> <<>>, was |-> FALSE]

CacheInit ==
    /\ content \in [Paths -> Contents \cup {Absent}]
    /\ mtime = [p \in Paths |-> 0]
    /\ clock = 0
    /\ processed_files = EmptyIndex
    /\ index_file = AbsentFile
    /\ cache_pc = "open"
    /\ lastMarked = [p \in Paths |-> Absent]
    /\ durable = EmptyIndex
    /\ last_op = NoOp

---------------------------------------------------------------------------
(* File-system events *)
EditFile(p, c) ==
    /\ cache_pc = "open" /\ clock < MaxClock
    /\ content[p] # Absent /\ c # content[p]
    /\ content' = [content EXCEPT ![p] = c]
    /\ clock' = clock + 1
    /\ mtime' = [mtime EXCEPT ![p] = clock + 1]
    /\ last_op' = [op |-> "edit", path |-> p, to |-> p, was |-> IsProcessed(p)]
    /\ UNCHANGED <<processed_files, index_file, cache_pc, lastMarked, durable>>
    /\ UNCHANGED nonCacheVars

TouchFile(p) ==
    /\ cache_pc = "open" /\ clock < MaxClock
    /\ content[p] # Absent
    /\ clock' = clock + 1
    /\ mtime' = [mtime EXCEPT ![p] = clock + 1]
    /\ last_op' = [op |-> "touch", path |-> p, to |-> p, was |-> IsProcessed(p)]
    /\ UNCHANGED <<content, processed_files, index_file, cache_pc, lastMarked, durable>>
    /\ UNCHANGED nonCacheVars

MoveFile(p, q) ==
    /\ cache_pc = "open" /\ clock < MaxClock
    /\ p # q /\ content[p] # Absent /\ content[q] = Absent
    /\ content' = [content EXCEPT ![q] = content[p], ![p] = Absent]
    /\ mtime' = [mtime EXCEPT ![q] = mtime[p], ![p] = 0]
    /\ clock' = clock + 1
    /\ last_op' = [op |-> "move", path |-> p, to |-> q, was |-> IsProcessed(p)]
    /\ UNCHANGED <<processed_files, index_file, cache_pc, lastMarked, durable>>
    /\ UNCHANGED nonCacheVars

(* PipelineCache operations *)
MarkProcessed(p) ==
    /\ cache_pc = "open" /\ content[p] # Absent
    /\ processed_files' = mark_file_as_processed(processed_files, p, content[p], EmptyMeta)
    /\ index_file' = JsonFile(processed_files')
    /\ durable' = processed_files'
    /\ lastMarked' = [lastMarked EXCEPT ![p] = content[p]]
    /\ last_op' = [op |-> "mark", path |-> p, to |-> p, was |-> IsProcessed(p)]
    /\ UNCHANGED <<content, mtime, clock, cache_pc>>
    /\ UNCHANGED nonCacheVars

(* The files of the intermediate results: a file is absent, holds the JSON  *)
(* list that was dumped, holds text that json.load rejects, or cannot be    *)
(* opened.                                                                  *)
ArtifactKeys ==
    { [stage |-> "chunks", file_id |-> "a"], [stage |-> "db_stored_chunks", file_id |-> ""] }
ArtifactData == { <<1>> } \cup { <<1, item>> : item \in 1 .. MaxItems }
AbsentArtifact == [kind |-> "absent", data |-> <<>>]
NoArtifacts == [key \in ArtifactKeys |-> AbsentArtifact]
NoResult == [key |-> <<>>, raised |-> FALSE, type |-> "none", n |-> 0]

(* clear_cache() without argument: every file of the cache directory is     *)
(* unlinked, the index file too, and self.processed_files is emptied        *)
ClearCacheKeepsArtifacts ==
    /\ cache_pc = "open"
    /\ \/ \E p \in Paths : processed_files[p] # NoRec
       \/ \E key \in ArtifactKeys : a_files[key] # AbsentArtifact
    /\ processed_files' = EmptyIndex
    /\ index_file' = AbsentFile
    /\ durable' = EmptyIndex
    /\ lastMarked' = [p \in Paths |-> Absent]
    /\ last_op' = [op |-> "clear", path |-> <<>>, to |-> <<>>, was |-> FALSE]
    /\ a_wiped' = /\ \E p \in Paths : IsProcessed(p)
                  /\ \E key \in ArtifactKeys : a_files[key].kind = "json"
    /\ a_result' = NoResult
    /\ UNCHANGED <<content, mtime, clock, cache_pc, chunk_cache, emb_cache, a_files>>
    /\ UNCHANGED nonCacheFileVars
ClearCache ==
    /\ cache_pc = "open"
    /\ \/ \E p \in Paths : processed_files[p] # NoRec
       \/ \E key \in ArtifactKeys : a_files[key] # AbsentArtifact
    /\ processed_files' = EmptyIndex
    /\ index_file' = AbsentFile
    /\ durable' = EmptyIndex
    /\ lastMarked' = [p \in Paths |-> Absent]
    /\ last_op' = [op |-> "clear", path |-> <<>>, to |-> <<>>, was |-> FALSE]
    /\ a_files' = NoArtifacts
    /\ chunk_cache' = [f \in DOMAIN chunk_cache |-> <<>>]
    /\ emb_cache' = <<>>
    /\ a_wiped' = /\ \E p \in Paths : IsProcessed(p)
                  /\ \E key \in ArtifactKeys : a_files[key].kind = "json"
    /\ a_result' = NoResult
    /\ UNCHANGED <<content, mtime, clock, cache_pc>>
    /\ UNCHANGED nonCacheFileVars

CacheNext ==
    \/ \E p \in Paths, c \in Contents : EditFile(p, c)
    \/ \E p \in Paths : TouchFile(p)
    \/ \E p, q \in Paths : MoveFile(p, q)
    \/ \E p \in Paths : MarkProcessed(p)
    \/ ClearCache

---------------------------------------------------------------------------
(* The same cache with save_processed_files split where a crash can fall:   *)
(* open(path, 'w') truncates the file, json.dump then writes it.            *)
BeginSave(p) ==
    /\ cache_pc = "open" /\ content[p] # Absent
    /\ processed_files' = mark_file_as_processed(processed_files, p, content[p], EmptyMeta)
    /\ index_file' = TruncatedFile
    /\ cache_pc' = "writing"
    /\ last_op' = [op |-> "mark", path |-> p, to |-> p, was |-> IsProcessed(p)]
    /\ UNCHANGED <<content, mtime, clock, lastMarked, durable>>
    /\ UNCHANGED nonCacheVars

FinishSave ==
    /\ cache_pc = "writing"
    /\ index_file' = JsonFile(processed_files)
    /\ durable' = processed_files
    /\ lastMarked' = [lastMarked EXCEPT ![last_op.path] = content[last_op.path]]
    /\ cache_pc' = "open"
    /\ UNCHANGED <<content, mtime, clock, processed_files, last_op>>
    /\ UNCHANGED nonCacheVars

Crash ==
    /\ cache_pc \in {"open", "writing"}
    /\ cache_pc' = "crashed"
    /\ processed_files' = EmptyIndex
    /\ last_op' = [op |-> "crash", path |-> <<>>, to |-> <<>>, was |-> cache_pc = "writing"]
    /\ UNCHANGED <<content, mtime, clock, index_file, lastMarked, durable>>
    /\ UNCHANGED nonCacheVars

(* PipelineCache.__init__ on the same directory *)
Reopen ==
    /\ cache_pc = "crashed"
    /\ processed_files' = load_processed_files(index_file)
    /\ cache_pc' = "open"
    /\ UNCHANGED <<content, mtime, clock, index_file, lastMarked, durable, last_op>>
    /\ UNCHANGED nonCacheVars

CrashNext ==
    \/ \E p \in Paths : BeginSave(p)
    \/ FinishSave
    \/ Crash
    \/ Reopen
    \/ \E p \in Paths, c \in Contents : EditFile(p, c)

---------------------------------------------------------------------------
(* retry_with_backoff(retries, backoff_in_seconds): the decorated call.     *)
(* The wrapped operation fails on its first r_plan invocations and succeeds *)
(* on the next one; AlwaysFails is a plan no budget outlasts.               *)
AlwaysFails == MaxRetries + 5
BackoffChoices == {1, 2}

RECURSIVE Pow2(_)
Pow2(n) == IF n = 0 THEN 1 ELSE 2 * Pow2(n - 1)

(* line 24: the wrapper gives up once attempts exceeds retries *)
BudgetSpent(attempts, retries) == attempts > retries

(* line 27: the delay before the next attempt *)
SleepTimeNextPower(backoff, attempts) == backoff * Pow2(attempts)
sleep_time(backoff, attempts) == backoff * Pow2(attempts - 1)

OperationFails(invocation) == invocation <= r_plan

RetryInit ==
    /\ r_retries \in 0 .. MaxRetries
    /\ r_backoff \in BackoffChoices
    /\ r_plan \in (0 .. MaxRetries + 1) \cup {AlwaysFails}
    /\ r_attempts = 0
    /\ r_invocations = 0
    /\ r_slept = <<>>
    /\ r_pc = "call"

(* try: return func(...) *)
InvokeSucceeds ==
    /\ r_pc = "call"
    /\ ~OperationFails(r_invocations + 1)
    /\ r_invocations' = r_invocations + 1
    /\ r_pc' = "returned"
    /\ UNCHANGED <<r_retries, r_backoff, r_plan, r_attempts, r_slept>>
    /\ UNCHANGED nonRetryVars

(* except: attempts += 1; not over budget: sleep, then loop *)
InvokeFailsAndSleeps ==
    /\ r_pc = "call"
    /\ OperationFails(r_invocations + 1)
    /\ ~BudgetSpent(r_attempts + 1, r_retries)
    /\ r_invocations' = r_invocations + 1
    /\ r_attempts' = r_attempts + 1
    /\ r_slept' = Append(r_slept, sleep_time(r_backoff, r_attempts + 1))
    /\ UNCHANGED <<r_retries, r_backoff, r_plan, r_pc>>
    /\ UNCHANGED nonRetryVars

(* except: attempts += 1; over budget: log and re-raise *)
InvokeFailsAndRaises ==
    /\ r_pc = "call"
    /\ OperationFails(r_invocations + 1)
    /\ BudgetSpent(r_attempts + 1, r_retries)
    /\ r_invocations' = r_invocations + 1
    /\ r_attempts' = r_attempts + 1
    /\ r_pc' = "raised"
    /\ UNCHANGED <<r_retries, r_backoff, r_plan, r_slept>>
    /\ UNCHANGED nonRetryVars

RetryNext == InvokeSucceeds \/ InvokeFailsAndSleeps \/ InvokeFailsAndRaises

---------------------------------------------------------------------------
(* process_data_pipeline(data_dir): one run is RunStart, one step per file  *)
(* of the folder, LoopEnd, one embedding step and one vector-store step.    *)

PdfExt == ".pdf"
IsNotPdfExt(piece) == piece # PdfExt

(* file_id = os.path.basename(file_path).replace('.pdf', ''): every ".pdf"  *)
(* piece of the name is removed, not only the extension.                    *)
file_id(p) == SelectSeq(p, IsNotPdfExt)
FileIds == { file_id(p) : p \in Paths }

(* Path(data_dir).glob("*.pdf"): the files present, in directory order *)
PathSeq == << <<"a", ".pdf">>, <<"a", ".pdf", ".pdf">>, <<"b", ".pdf">> >>
IsPresent(p) == content[p] # Absent
glob_pdf == SelectSeq(PathSeq, IsPresent)

(* A chunk as chunk_documents returns it and the loop of lines 139-147      *)
(* re-labels it.  Its text is the part-th passage of the content c; the     *)
(* splitter returns passages without surrounding whitespace (ws) and the    *)
(* embedder later prepends its metadata line (aug).                         *)
Chunk(p, c, i) ==
    [chunk_id |-> <<file_id(p), "chunk", i>>, formation_id |-> file_id(p),
     chunk_index |-> i, source |-> p,
     text |-> [c |-> c, part |-> i, ws |-> FALSE, aug |-> 0],
     emb |-> FALSE]

ChunkFile(p, c, n) == [k \in 1 .. n |-> Chunk(p, c, k - 1)]

(* save_intermediate_result: page_content.strip() of every Document; an    *)
(* empty list of serialisable items leaves the file as it was.              *)
Strip(t) == [t EXCEPT !.ws = FALSE]
Serialise(data) == [k \in 1 .. Len(data) |-> [data[k] EXCEPT !.text = Strip(@)]]
save_intermediate_result(old, data) ==
    IF Serialise(data) = <<>> THEN old ELSE Serialise(data)

(* load_intermediate_result: a missing file gives [] *)
load_intermediate_result(entry) == entry

(* embed_documents: every passage gets the metadata line prepended to its   *)
(* text and an "embedding" entry.                                           *)
EmbedOne(d) == [d EXCEPT !.text.aug = @ + 1, !.emb = TRUE]
embed_documents(docs) == [k \in 1 .. Len(docs) |-> EmbedOne(docs[k])]

(* line 171: the shared embeddings entry is taken when it is long enough *)
UseCachedEmbeddings(cached, chunks) == cached # <<>> /\ Len(cached) >= Len(chunks)

NoStore == [exists |-> FALSE, docs |-> <<>>]
(* vector_store.add_documents(batch) followed by save_faiss *)
add_documents(st, batch) == [exists |-> TRUE, docs |-> st.docs \o batch]
(* create_vector_store(valid_docs), which saves the new store *)
create_vector_store(docs) == [exists |-> TRUE, docs |-> docs]

NoContrib == [hit |-> FALSE, path |-> <<>>, chunks |-> <<>>]
NoPath == <<>>

PipeInit ==
    /\ chunk_cache = [f \in FileIds |-> <<>>]
    /\ emb_cache = <<>>
    /\ store = NoStore
    /\ pl_pc = "idle"
    /\ pl_files = <<>>
    /\ pl_i = 0
    /\ all_chunks = <<>>
    /\ all_processed = TRUE
    /\ docs_emb = <<>>
    /\ pl_result = "none"
    /\ runs = 0
    /\ produced = [p \in Paths |-> <<>>]
    /\ contrib = NoContrib
    /\ store_at_start = NoStore
    /\ run_unchanged = FALSE
    /\ raised_at = NoPath
    /\ visited = {}

PipeFilesInit ==
    /\ content \in [Paths -> {Absent, 1}]
    /\ mtime = [p \in Paths |-> 0]
    /\ clock = 0
    /\ processed_files = EmptyIndex
    /\ index_file = AbsentFile
    /\ cache_pc = "open"
    /\ lastMarked = [p \in Paths |-> Absent]
    /\ durable = EmptyIndex
    /\ last_op = NoOp

CurrentFile == pl_files[pl_i]

(* lines 56-71: a new process opens the cache and lists the folder *)
RunStart ==
    /\ pl_pc \in {"idle", "done"} /\ runs < MaxRuns
    /\ glob_pdf # <<>>
    /\ runs' = runs + 1
    /\ processed_files' = load_processed_files(index_file)
    /\ pl_files' = glob_pdf
    /\ pl_i' = 1
    /\ all_chunks' = <<>>
    /\ all_processed' = TRUE
    /\ docs_emb' = <<>>
    /\ pl_result' = "none"
    /\ pl_pc' = "files"
    /\ contrib' = NoContrib
    /\ store_at_start' = store
    /\ run_unchanged' =
          \A p \in Paths : IsPresent(p) =>
              is_file_processed(load_processed_files(index_file), p, content[p])
    /\ raised_at' = NoPath
    /\ visited' = {}
    /\ UNCHANGED <<content, mtime, clock, index_file, cache_pc, lastMarked, durable,
                   last_op, chunk_cache, emb_cache, store, produced>>
    /\ UNCHANGED nonPipeVars

(* lines 66-68: no PDF in the folder, the run returns True at once *)
RunNoFiles ==
    /\ pl_pc \in {"idle", "done"} /\ runs < MaxRuns
    /\ glob_pdf = <<>>
    /\ runs' = runs + 1
    /\ processed_files' = load_processed_files(index_file)
    /\ pl_files' = <<>>
    /\ pl_i' = 0
    /\ all_chunks' = <<>>
    /\ all_processed' = TRUE
    /\ docs_emb' = <<>>
    /\ pl_result' = "true"
    /\ pl_pc' = "done"
    /\ contrib' = NoContrib
    /\ store_at_start' = store
    /\ run_unchanged' = FALSE
    /\ raised_at' = NoPath
    /\ visited' = {}
    /\ UNCHANGED <<content, mtime, clock, index_file, cache_pc, lastMarked, durable,
                   last_op, chunk_cache, emb_cache, store, produced>>
    /\ UNCHANGED nonPipeVars

(* lines 83-106: the file is processed and its chunk entry is not empty *)
FileFromCache ==
    /\ pl_pc = "files" /\ pl_i <= Len(pl_files)
    /\ is_file_processed(processed_files, CurrentFile, content[CurrentFile])
    /\ load_intermediate_result(chunk_cache[file_id(CurrentFile)]) # <<>>
    /\ all_chunks' = all_chunks \o load_intermediate_result(chunk_cache[file_id(CurrentFile)])
    /\ all_processed' = FALSE
    /\ contrib' = [hit |-> TRUE, path |-> CurrentFile,
                   chunks |-> load_intermediate_result(chunk_cache[file_id(CurrentFile)])]
    /\ visited' = visited \cup {CurrentFile}
    /\ pl_i' = pl_i + 1
    /\ UNCHANGED <<cacheVars, chunk_cache, emb_cache, store, pl_pc, pl_files, docs_emb,
                   pl_result, runs, produced, store_at_start, run_unchanged, raised_at>>
    /\ UNCHANGED nonPipeVars

MustProcess ==
    /\ pl_pc = "files" /\ pl_i <= Len(pl_files)
    /\ ~ ( /\ is_file_processed(processed_files, CurrentFile, content[CurrentFile])
           /\ load_intermediate_result(chunk_cache[file_id(CurrentFile)]) # <<>> )

(* lines 108-156: extraction, cleaning and chunking give n >= 1 chunks *)
FileProcessed(n) ==
    /\ MustProcess
    /\ all_processed' = FALSE
    /\ chunk_cache' = [chunk_cache EXCEPT ![file_id(CurrentFile)] =
          save_intermediate_result(@, ChunkFile(CurrentFile, content[CurrentFile], n))]
    /\ all_chunks' = all_chunks \o ChunkFile(CurrentFile, content[CurrentFile], n)
    /\ processed_files' =
          mark_file_as_processed(processed_files, CurrentFile, content[CurrentFile], n)
    /\ index_file' = JsonFile(processed_files')
    /\ durable' = processed_files'
    /\ lastMarked' = [lastMarked EXCEPT ![CurrentFile] = content[CurrentFile]]
    /\ produced' = [produced EXCEPT ![CurrentFile] =
                        ChunkFile(CurrentFile, content[CurrentFile], n)]
    /\ visited' = visited \cup {CurrentFile}
    /\ pl_i' = pl_i + 1
    /\ UNCHANGED <<content, mtime, clock, cache_pc, last_op, emb_cache, store, pl_pc,
                   pl_files, docs_emb, pl_result, runs, contrib, store_at_start,
                   run_unchanged, raised_at>>
    /\ UNCHANGED nonPipeVars

(* lines 115-117, 125-127, 135-137: a stage returned no valid document (the *)
(* stages turn their own errors into an empty result): the file is skipped  *)
FileInvalid ==
    /\ MustProcess
    /\ all_processed' = FALSE
    /\ visited' = visited \cup {CurrentFile}
    /\ pl_i' = pl_i + 1
    /\ UNCHANGED <<cacheVars, chunk_cache, emb_cache, store, pl_pc, pl_files, all_chunks,
                   docs_emb, pl_result, runs, produced, contrib, store_at_start,
                   run_unchanged, raised_at>>
    /\ UNCHANGED nonPipeVars

(* an exception leaves a stage (chunk_documents runs its fallback split     *)
(* outside any try): nothing in the loop catches it, so it reaches          *)
(* lines 336-338 and the run returns False                                  *)
FileStageRaises ==
    /\ MustProcess
    /\ all_processed' = FALSE
    /\ visited' = visited \cup {CurrentFile}
    /\ raised_at' = CurrentFile
    /\ pl_result' = "false"
    /\ pl_pc' = "done"
    /\ UNCHANGED <<cacheVars, chunk_cache, emb_cache, store, pl_files, pl_i, all_chunks,
                   docs_emb, runs, produced, contrib, store_at_start, run_unchanged>>
    /\ UNCHANGED nonPipeVars

(* lines 158-164 *)
LoopEnd ==
    /\ pl_pc = "files" /\ pl_i > Len(pl_files)
    /\ IF all_processed \/ all_chunks = <<>>
          THEN pl_pc' = "done" /\ pl_result' = "true"
          ELSE pl_pc' = "embed" /\ pl_result' = pl_result
    /\ UNCHANGED <<cacheVars, chunk_cache, emb_cache, store, pl_files, pl_i, all_chunks,
                   all_processed, docs_emb, runs, produced, contrib, store_at_start,
                   run_unchanged, raised_at, visited>>
    /\ UNCHANGED nonPipeVars

(* lines 170-173: the cached embeddings are taken *)
EmbedFromCache ==
    /\ pl_pc = "embed"
    /\ UseCachedEmbeddings(load_intermediate_result(emb_cache), all_chunks)
    /\ docs_emb' = load_intermediate_result(emb_cache)
    /\ pl_pc' = "store"
    /\ UNCHANGED <<cacheVars, chunk_cache, emb_cache, store, pl_files, pl_i, all_chunks,
                   all_processed, pl_result, runs, produced, contrib, store_at_start,
                   run_unchanged, raised_at, visited>>
    /\ UNCHANGED nonPipeVars

(* lines 174-178: the chunks of the run are embedded and the entry saved *)
EmbedFresh ==
    /\ pl_pc = "embed"
    /\ ~UseCachedEmbeddings(load_intermediate_result(emb_cache), all_chunks)
    /\ docs_emb' = embed_documents(all_chunks)
    /\ emb_cache' = save_intermediate_result(emb_cache, embed_documents(all_chunks))
    /\ pl_pc' = "store"
    /\ UNCHANGED <<cacheVars, chunk_cache, store, pl_files, pl_i, all_chunks,
                   all_processed, pl_result, runs, produced, contrib, store_at_start,
                   run_unchanged, raised_at, visited>>
    /\ UNCHANGED nonPipeVars

(* line 168 or 176: FSSTEmbedder() or embed_documents raises *)
EmbedRaises ==
    /\ pl_pc = "embed"
    /\ pl_result' = "false"
    /\ pl_pc' = "done"
    /\ UNCHANGED <<cacheVars, chunk_cache, emb_cache, store, pl_files, pl_i, all_chunks,
                   all_processed, docs_emb, runs, produced, contrib, store_at_start,
                   run_unchanged, raised_at, visited>>
    /\ UNCHANGED nonPipeVars

(* lines 263-290: a store exists, the documents are appended and it is saved *)
StoreAppend ==
    /\ pl_pc = "store" /\ store.exists
    /\ store' = add_documents(store, docs_emb)
    /\ pl_result' = "true"
    /\ pl_pc' = "done"
    /\ UNCHANGED <<cacheVars, chunk_cache, emb_cache, pl_files, pl_i, all_chunks,
                   all_processed, docs_emb, runs, produced, contrib, store_at_start,
                   run_unchanged, raised_at, visited>>
    /\ UNCHANGED nonPipeVars

(* lines 292-328: no store yet, one is created from the documents *)
StoreCreate ==
    /\ pl_pc = "store" /\ ~store.exists
    /\ store' = create_vector_store(docs_emb)
    /\ pl_result' = "true"
    /\ pl_pc' = "done"
    /\ UNCHANGED <<cacheVars, chunk_cache, emb_cache, pl_files, pl_i, all_chunks,
                   all_processed, docs_emb, runs, produced, contrib, store_at_start,
                   run_unchanged, raised_at, visited>>
    /\ UNCHANGED nonPipeVars

(* lines 329-331: create_vector_store returned None *)
StoreCreateFails ==
    /\ pl_pc = "store" /\ ~store.exists
    /\ pl_result' = "false"
    /\ pl_pc' = "done"
    /\ UNCHANGED <<cacheVars, chunk_cache, emb_cache, store, pl_files, pl_i, all_chunks,
                   all_processed, docs_emb, runs, produced, contrib, store_at_start,
                   run_unchanged, raised_at, visited>>
    /\ UNCHANGED nonPipeVars

(* between two runs a file of the folder is edited *)
EditBetweenRuns(p, c) ==
    /\ pl_pc \in {"idle", "done"}
    /\ clock < MaxEdits
    /\ EditFile(p, c)

PipeNext ==
    \/ RunStart
    \/ RunNoFiles
    \/ FileFromCache
    \/ \E n \in 1 .. MaxChunks : FileProcessed(n)
    \/ FileInvalid
    \/ FileStageRaises
    \/ LoopEnd
    \/ EmbedFromCache
    \/ EmbedFresh
    \/ EmbedRaises
    \/ StoreAppend
    \/ StoreCreate
    \/ StoreCreateFails
    \/ \E p \in Paths, c \in Contents : EditBetweenRuns(p, c)

---------------------------------------------------------------------------
(* FSTQueryEngine.query(question).  A question is the set of the words of   *)
(* Vocabulary it contains; a keyword counts when it occurs in the question  *)
(* (no word of Vocabulary contains a keyword other than itself).            *)

Vocabulary == {"rsi", "marketing", "admission", "programme", "débouché", "objectif",
               "contact", "master"}

(* _detect_formation: the keyword table, in declaration order *)
FormationTable ==
    << [id |-> "MST_RSI_FST_SETTAT",
        keywords |-> {"mst", "rsi", "réseau", "système", "informatique"}],
       [id |-> "marketing digital",
        keywords |-> {"marketing", "digital", "numérique", "communication"}] >>

(* _detect_intent: the keyword table, in declaration order *)
IntentTable ==
    << [id |-> "admission",
        keywords |-> {"admission", "prérequis", "conditions", "inscription",
                      "candidature", "postuler"}],
       [id |-> "programme",
        keywords |-> {"programme", "cours", "module", "matière", "contenu", "enseigne"}],
       [id |-> "débouchés",
        keywords |-> {"débouché", "carrière", "métier", "profession", "travail", "emploi"}],
       [id |-> "objectifs",
        keywords |-> {"objectif", "compétence", "apprentissage", "apprendre", "acquérir"}],
       [id |-> "contact",
        keywords |-> {"contact", "email", "téléphone", "adresse", "responsable",
                      "coordonnées"}],
       [id |-> "général",
        keywords |-> {"formation", "master", "licence", "filière", "département"}] >>

Score(table, k, question) == Cardinality(table[k].keywords \cap question)
MaxScore(table, question) ==
    CHOOSE m \in 0 .. Cardinality(question) :
        /\ \A k \in 1 .. Len(table) : Score(table, k, question) <= m
        /\ \E k \in 1 .. Len(table) : Score(table, k, question) = m
(* max(scores.items(), key=...) returns the first entry with the top score *)
FirstBest(table, question) ==
    CHOOSE k \in 1 .. Len(table) :
        /\ Score(table, k, question) = MaxScore(table, question)
        /\ \A j \in 1 .. k - 1 : Score(table, j, question) < MaxScore(table, question)

_detect_formation(question) ==
    IF MaxScore(FormationTable, question) = 0 THEN "UNKNOWN"
    ELSE FormationTable[FirstBest(FormationTable, question)].id

_detect_intent(question) ==
    IF MaxScore(IntentTable, question) = 0 THEN "général"
    ELSE IntentTable[FirstBest(IntentTable, question)].id

(* _generate_no_info_response: the intent_messages dict has no "contact" key *)
IntentsWithMessage == {"admission", "programme", "débouchés", "objectifs", "général"}
_generate_no_info_response(formation, intent) ==
    IF formation = "UNKNOWN" THEN [kind |-> "no_info_unknown", formation |-> "", intent |-> ""]
    ELSE IF intent \in IntentsWithMessage
         THEN [kind |-> "no_info", formation |-> formation, intent |-> intent]
         ELSE [kind |-> "no_info_default", formation |-> "", intent |-> ""]

Apology == [kind |-> "apology", formation |-> "", intent |-> ""]
EmptyAnswer == [kind |-> "empty", formation |-> "", intent |-> ""]

(* what the chain may return: a result whose text has or has not one of the *)
(* preambles _post_process_answer removes, a result with an empty text, or  *)
(* a result without the 'result' field                                      *)
LlmResults == {"text", "preamble+text", "", "no_result_field"}
(* line 164: qa_result.get('result', '') *)
ResultField(qa_result) == IF qa_result = "no_result_field" THEN "" ELSE qa_result
_post_process_answer(raw) ==
    IF raw = "" THEN EmptyAnswer
    ELSE [kind |-> "llm", formation |-> "", intent |-> "text"]

Null == "null"
Exceptions == { [type |-> "AttributeError", msg |-> "no attribute"],
                [type |-> "RuntimeError", msg |-> "backend failed"] }
(* str(e) *)
ErrorString(e) == e.msg
NoException == [type |-> "none", msg |-> ""]

(* the statements of query() that run inside its try block (lines 141-167)  *)
TryStages == {"normalize", "detect", "retrieve", "context", "llm", "post"}
Guarded(stage) == stage \in TryStages

(* lines 168-173: the except branch *)
ApologyWithoutError(resp, e) == [resp EXCEPT !.answer = Apology]
handle_exception(resp, e) == [resp EXCEPT !.answer = Apology, !.error = ErrorString(e)]

InitialResponse(question) ==
    [question |-> question, answer |-> EmptyAnswer, context_used |-> "",
     documents_found |-> 0, error |-> Null]

QueryInit ==
    /\ q_store \in {"none", "empty", "loaded"}
    /\ q_chain \in BOOLEAN
    /\ (q_store = "none" => ~q_chain)
    /\ q_pc = "idle"
    /\ q_question = {}
    /\ q_normalized = {}
    /\ q_formation = "UNKNOWN"
    /\ q_intent = "général"
    /\ q_docs = 0
    /\ q_llm = ""
    /\ response = InitialResponse({})
    /\ q_err = NoException
    /\ q_failures = {}
    /\ q_outcome = "none"

(* lines 134-140 *)
QueryStart(question) ==
    /\ q_pc = "idle"
    /\ q_question' = question
    /\ response' = InitialResponse(question)
    /\ q_pc' = "normalize"
    /\ q_normalized' = {}
    /\ q_formation' = "UNKNOWN"
    /\ q_intent' = "général"
    /\ q_docs' = 0
    /\ q_llm' = ""
    /\ q_err' = NoException
    /\ q_failures' = {}
    /\ q_outcome' = "none"
    /\ UNCHANGED <<q_store, q_chain>>
    /\ UNCHANGED nonQueryVars

(* normalize_question: language detection and translation; its own          *)
(* try/except returns the question unchanged when either fails              *)
Normalize(failed) ==
    /\ q_pc = "normalize"
    /\ q_normalized' = q_question
    /\ q_failures' = IF failed THEN q_failures \cup {"normalize"} ELSE q_failures
    /\ q_pc' = "detect"
    /\ UNCHANGED <<q_store, q_chain, q_question, q_formation, q_intent, q_docs, q_llm,
                   response, q_err, q_outcome>>
    /\ UNCHANGED nonQueryVars

(* lines 143-146 *)
Detect ==
    /\ q_pc = "detect"
    /\ q_formation' = _detect_formation(q_normalized)
    /\ q_intent' = _detect_intent(q_normalized)
    /\ q_pc' = "retrieve"
    /\ UNCHANGED <<q_store, q_chain, q_question, q_normalized, q_docs, q_llm, response,
                   q_err, q_failures, q_outcome>>
    /\ UNCHANGED nonQueryVars

(* line 147, lines 151-158: n >= 1 passages are found and the context built *)
RetrieveSome(n) ==
    /\ q_pc = "retrieve" /\ q_store = "loaded"
    /\ q_docs' = n
    /\ q_pc' = "context"
    /\ UNCHANGED <<q_store, q_chain, q_question, q_normalized, q_formation, q_intent,
                   q_llm, response, q_err, q_failures, q_outcome>>
    /\ UNCHANGED nonQueryVars

(* lines 148-150: nothing found, the canned response is returned *)
RetrieveNone ==
    /\ q_pc = "retrieve" /\ q_store \in {"empty", "loaded"}
    /\ q_docs' = 0
    /\ response' = [response EXCEPT !.answer = _generate_no_info_response(q_formation, q_intent)]
    /\ q_outcome' = "returned"
    /\ q_pc' = "done"
    /\ UNCHANGED <<q_store, q_chain, q_question, q_normalized, q_formation, q_intent,
                   q_llm, q_err, q_failures>>
    /\ UNCHANGED nonQueryVars

(* lines 151-158 *)
BuildContext ==
    /\ q_pc = "context"
    /\ q_pc' = "llm"
    /\ UNCHANGED <<q_store, q_chain, q_question, q_normalized, q_formation, q_intent,
                   q_docs, q_llm, response, q_err, q_failures, q_outcome>>
    /\ UNCHANGED nonQueryVars

(* lines 159-162 *)
InvokeChain(result) ==
    /\ q_pc = "llm" /\ q_chain
    /\ q_llm' = result
    /\ q_pc' = "post"
    /\ UNCHANGED <<q_store, q_chain, q_question, q_normalized, q_formation, q_intent,
                   q_docs, response, q_err, q_failures, q_outcome>>
    /\ UNCHANGED nonQueryVars

(* lines 163-167, 174 *)
PostProcess ==
    /\ q_pc = "post"
    /\ response' = [response EXCEPT !.answer = _post_process_answer(ResultField(q_llm)),
                                    !.context_used = "context",
                                    !.documents_found = q_docs]
    /\ q_outcome' = "returned"
    /\ q_pc' = "done"
    /\ UNCHANGED <<q_store, q_chain, q_question, q_normalized, q_formation, q_intent,
                   q_docs, q_llm, q_err, q_failures>>
    /\ UNCHANGED nonQueryVars

(* a statement of the stage raises e.  Without a vector store the retrieval *)
(* raises AttributeError, without a chain the invocation does.              *)
MustRaise ==
    \/ q_pc = "retrieve" /\ q_store = "none"
    \/ q_pc = "llm" /\ ~q_chain
StageRaises(e) ==
    /\ q_pc \in {"detect", "retrieve", "context", "llm", "post"}
    /\ MustRaise => e.type = "AttributeError"
    /\ q_err' = e
    /\ q_failures' = q_failures \cup {q_pc}
    /\ q_pc' = "except"
    /\ UNCHANGED <<q_store, q_chain, q_question, q_normalized, q_formation, q_intent,
                   q_docs, q_llm, response, q_outcome>>
    /\ UNCHANGED nonQueryVars

(* lines 168-174: the exception of a guarded stage is turned into the       *)
(* apology response; any other would leave query()                          *)
HandleException ==
    /\ q_pc = "except"
    /\ IF \A st \in q_failures \ {"normalize"} : Guarded(st)
          THEN /\ response' = handle_exception(response, q_err)
               /\ q_outcome' = "returned"
          ELSE /\ response' = response
               /\ q_outcome' = "raised"
    /\ q_pc' = "done"
    /\ UNCHANGED <<q_store, q_chain, q_question, q_normalized, q_formation, q_intent,
                   q_docs, q_llm, q_err, q_failures>>
    /\ UNCHANGED nonQueryVars

(* line 174 seen from the caller: the response has been handed over, the   *)
(* locals of query() are gone and the engine waits for the next question    *)
QueryReturned ==
    /\ q_pc = "done"
    /\ q_pc' = "idle"
    /\ q_question' = {} /\ q_normalized' = {}
    /\ q_formation' = "UNKNOWN" /\ q_intent' = "général"
    /\ q_docs' = 0 /\ q_llm' = ""
    /\ response' = InitialResponse({})
    /\ q_err' = NoException /\ q_failures' = {} /\ q_outcome' = "none"
    /\ UNCHANGED <<q_store, q_chain>>
    /\ UNCHANGED nonQueryVars

QueryNext ==
    \/ \E question \in SUBSET Vocabulary : QueryStart(question)
    \/ \E failed \in BOOLEAN : Normalize(failed)
    \/ Detect
    \/ \E n \in 1 .. MaxDocs : RetrieveSome(n)
    \/ RetrieveNone
    \/ BuildContext
    \/ \E result \in LlmResults : InvokeChain(result)
    \/ PostProcess
    \/ \E e \in Exceptions : StageRaises(e)
    \/ HandleException
    \/ QueryReturned

QueryIdle ==
    /\ q_store = "none" /\ q_chain = FALSE /\ q_pc = "idle" /\ q_question = {}
    /\ q_normalized = {} /\ q_formation = "UNKNOWN" /\ q_intent = "général"
    /\ q_docs = 0 /\ q_llm = "" /\ response = InitialResponse({})
    /\ q_err = NoException /\ q_failures = {} /\ q_outcome = "none"

---------------------------------------------------------------------------
(* VectorStoreManager (create_vector_store, load_faiss, save_faiss) and the *)
(* append branch of process_data_pipeline.  A passage is a Document with a  *)
(* text and the metadata entries chunk_id, source and embedding; an entry   *)
(* that is missing has the tag "none".                                      *)

Missing == [tag |-> "none", n |-> 0]
PassageKinds == {"full", "no_source", "no_chunk_id"}
Passage(n, kind) ==
    [page_content |-> n,
     metadata |-> [chunk_id |-> IF kind = "no_chunk_id" THEN Missing
                                ELSE [tag |-> "chunk", n |-> n],
                   source |-> IF kind = "no_source" THEN Missing
                              ELSE [tag |-> "src", n |-> n],
                   embedding |-> [tag |-> "list", n |-> n]]]

(* the batch size of line 277, scaled down *)
batch_size == 2

(* _validate_document on a Document: a missing chunk_id is to be replaced   *)
(* by a uuid4() value, but uuid4 is not imported in vector_store.py: the    *)
(* NameError is caught at line 82 and the document is dropped.  A missing   *)
(* source becomes "document_<index>".                                       *)
IsValidDocument(doc) == doc.metadata.chunk_id # Missing
_validate_document(doc, index) ==
    IF doc.metadata.source = Missing
    THEN [doc EXCEPT !.metadata.source = [tag |-> "document", n |-> index]]
    ELSE doc

RECURSIVE ValidDocs(_, _)
ValidDocs(documents, k) ==
    IF k > Len(documents) THEN <<>>
    ELSE (IF IsValidDocument(documents[k])
          THEN << _validate_document(documents[k], k - 1) >> ELSE <<>>)
         \o ValidDocs(documents, k + 1)

(* the embedding capability of the index: a function of the text *)
EmbedText(text) == [tag |-> "vec", n |-> text]

(* langchain FAISS.add_documents / from_documents: the texts are embedded   *)
(* (the only step that fails here, before anything is changed), then the    *)
(* vectors are added to the index, the documents to the docstore under new  *)
(* uuid ids, and the slots len(index_to_docstore_id).. are mapped to them.  *)
EmptyFaiss == [index |-> <<>>, docstore |-> <<>>, index_to_docstore_id |-> {}]
NoFaiss == [index |-> <<>>, docstore |-> <<>>,
            index_to_docstore_id |-> {[key |-> -1, id |-> 0]}]
faiss_add_documents(st, batch, first_id) ==
    [index |-> st.index \o [k \in 1 .. Len(batch) |-> EmbedText(batch[k].page_content)],
     docstore |-> st.docstore \o
                  [k \in 1 .. Len(batch) |-> [id |-> first_id + k, doc |-> batch[k]]],
     index_to_docstore_id |-> st.index_to_docstore_id \cup
         { [key |-> Cardinality(st.index_to_docstore_id) + k - 1, id |-> first_id + k]
             : k \in 1 .. Len(batch) }]

(* json.dump / json.load of index.json: the integer slot keys are written   *)
(* as strings (line 309) and read back with int() (line 145).               *)
StrKey(i) == [str |-> i]
IntKey(k) == k.str
JsonEncodeValue(v) == IF v.tag = "ndarray" THEN [v EXCEPT !.tag = "list"] ELSE v
JsonEncodeDocNoVector(d) ==
    [page_content |-> d.page_content,
     metadata |-> [chunk_id |-> d.metadata.chunk_id, source |-> d.metadata.source,
                   embedding |-> Missing]]
JsonEncodeDoc(d) ==
    [page_content |-> d.page_content,
     metadata |-> [chunk_id |-> d.metadata.chunk_id, source |-> d.metadata.source,
                   embedding |-> JsonEncodeValue(d.metadata.embedding)]]

AbsentJson == [kind |-> "absent", docstore |-> <<>>, index_to_docstore_id |-> {}]
TruncatedJson == [kind |-> "truncated", docstore |-> <<>>, index_to_docstore_id |-> {}]
AbsentFaiss == [exists |-> FALSE, index |-> <<>>]

(* save_faiss, lines 297-313: the sidecar written from the store *)
JsonOf(st) ==
    [kind |-> "json",
     docstore |-> [k \in 1 .. Len(st.docstore) |->
                     [id |-> st.docstore[k].id, doc |-> JsonEncodeDoc(st.docstore[k].doc)]],
     index_to_docstore_id |-> { [key |-> StrKey(e.key), id |-> e.id]
                                  : e \in st.index_to_docstore_id }]

(* save_faiss: index.faiss is written first (line 295), index.json is       *)
(* opened with 'w' and written next (lines 312-313); an exception at any    *)
(* point is caught and False returned (lines 317-319).                      *)
SaveOutcomes == {"ok", "fails_before_index", "fails_before_json", "fails_in_json"}
save_faiss_index(old, st, outcome) ==
    IF outcome = "fails_before_index" THEN old
    ELSE [exists |-> TRUE, index |-> st.index]
save_faiss_json(old, st, outcome) ==
    CASE outcome = "ok" -> JsonOf(st)
      [] outcome = "fails_in_json" -> TruncatedJson
      [] OTHER -> old
SaveResult(outcome) == IF outcome = "ok" THEN "ok" ELSE "failed"

(* load_faiss / _load_faiss_format: both files must exist; an unreadable    *)
(* sidecar gives None.  The FAISS object is built from whatever the two     *)
(* files hold.                                                              *)
CanLoad(ff, jf) == ff.exists /\ jf.kind = "json"
load_faiss(ff, jf) ==
    IF CanLoad(ff, jf)
    THEN [index |-> ff.index,
          docstore |-> jf.docstore,
          index_to_docstore_id |-> { [key |-> IntKey(e.key), id |-> e.id]
                                       : e \in jf.index_to_docstore_id }]
    ELSE NoFaiss

StoreInit ==
    /\ vs_faiss_file = AbsentFaiss
    /\ vs_json_file = AbsentJson
    /\ vs_store = NoFaiss
    /\ vs_pc = "idle"
    /\ vs_docs = <<>>
    /\ vs_i = 0
    /\ vs_next = 0
    /\ vs_last_save = "none"
    /\ vs_failed = {}
    /\ vs_pre = <<>>
    /\ vs_created = NoFaiss
    /\ vs_loaded = NoFaiss

KindSeqs(n) == [1 .. n -> PassageKinds]
NewPassages(kinds) == [k \in 1 .. Len(kinds) |-> Passage(vs_next + k, kinds[k])]

(* main.py 292-331 with create_vector_store: no store could be loaded, one  *)
(* is created from the valid documents and saved (create_vector_store saves *)
(* at line 115, the pipeline saves again at line 327).                      *)
CreateStore(kinds, outcome) ==
    /\ vs_pc = "idle" /\ vs_next + Len(kinds) <= MaxPassages
    /\ ~CanLoad(vs_faiss_file, vs_json_file)
    /\ ValidDocs(NewPassages(kinds), 1) # <<>>
    /\ LET st == faiss_add_documents(EmptyFaiss, ValidDocs(NewPassages(kinds), 1), vs_next)
       IN /\ vs_store' = st
          /\ vs_created' = st
          /\ vs_loaded' = NoFaiss
          /\ vs_faiss_file' = save_faiss_index(vs_faiss_file, st, outcome)
          /\ vs_json_file' = save_faiss_json(vs_json_file, st, outcome)
    /\ vs_last_save' = SaveResult(outcome)
    /\ vs_next' = vs_next + Len(kinds)
    /\ vs_docs' = <<>> /\ vs_i' = 0 /\ vs_failed' = {} /\ vs_pre' = <<>>
    /\ UNCHANGED vs_pc
    /\ UNCHANGED nonStoreVars

(* create_vector_store returns None (no valid document, or the embedding    *)
(* fails): nothing is written, lines 103-105, 119-121                       *)
CreateStoreFails(kinds) ==
    /\ vs_pc = "idle"
    /\ ~CanLoad(vs_faiss_file, vs_json_file)
    /\ vs_store' = NoFaiss
    /\ vs_docs' = <<>> /\ vs_i' = 0 /\ vs_failed' = {} /\ vs_pre' = <<>>
    /\ UNCHANGED <<vs_faiss_file, vs_json_file, vs_pc, vs_next, vs_last_save,
                   vs_created, vs_loaded>>
    /\ UNCHANGED nonStoreVars

(* main.py 261-278: a store was loaded, the documents are to be appended *)
AppendStart(n) ==
    /\ vs_pc = "idle" /\ vs_next + n <= MaxPassages
    /\ CanLoad(vs_faiss_file, vs_json_file)
    /\ vs_store' = load_faiss(vs_faiss_file, vs_json_file)
    /\ vs_pre' = vs_json_file.docstore
    /\ vs_docs' = [k \in 1 .. n |-> Passage(vs_next + k, "full")]
    /\ vs_next' = vs_next + n
    /\ vs_i' = 0
    /\ vs_failed' = {}
    /\ vs_pc' = "appending"
    /\ UNCHANGED <<vs_faiss_file, vs_json_file, vs_last_save, vs_created, vs_loaded>>
    /\ UNCHANGED nonStoreVars

Min(a, b) == IF a < b THEN a ELSE b
BatchFromStart(docs, i) == SubSeq(docs, 1, Min(i + batch_size, Len(docs)))
Batch(docs, i) == SubSeq(docs, i + 1, Min(i + batch_size, Len(docs)))

(* main.py 280-287: one batch; its exception is logged and the loop goes on *)
AppendBatch(ok) ==
    /\ vs_pc = "appending" /\ vs_i < Len(vs_docs)
    /\ vs_store' = IF ok THEN faiss_add_documents(vs_store, Batch(vs_docs, vs_i),
                                                  vs_next - Len(vs_docs) + vs_i)
                   ELSE vs_store
    /\ vs_failed' = IF ok THEN vs_failed ELSE vs_failed \cup {vs_i}
    /\ vs_i' = vs_i + batch_size
    /\ UNCHANGED <<vs_faiss_file, vs_json_file, vs_pc, vs_docs, vs_next,
                   vs_last_save, vs_pre, vs_created, vs_loaded>>
    /\ UNCHANGED nonStoreVars

(* main.py 289: the save after the last batch; its result is not looked at *)
AppendSave(outcome) ==
    /\ vs_pc = "appending" /\ vs_i >= Len(vs_docs)
    /\ vs_faiss_file' = save_faiss_index(vs_faiss_file, vs_store, outcome)
    /\ vs_json_file' = save_faiss_json(vs_json_file, vs_store, outcome)
    /\ vs_last_save' = SaveResult(outcome)
    /\ vs_pc' = "idle"
    /\ vs_loaded' = NoFaiss
    /\ UNCHANGED <<vs_store, vs_docs, vs_i, vs_next, vs_failed, vs_pre,
                   vs_created>>
    /\ UNCHANGED nonStoreVars

(* load_faiss by a later process *)
LoadStore ==
    /\ vs_pc = "idle"
    /\ vs_loaded' = load_faiss(vs_faiss_file, vs_json_file)
    /\ UNCHANGED <<vs_faiss_file, vs_json_file, vs_store, vs_pc, vs_docs, vs_i, vs_next,
                   vs_last_save, vs_failed, vs_pre, vs_created>>
    /\ UNCHANGED nonStoreVars

StoreNext ==
    \/ \E n \in 1 .. MaxCreate : \E kinds \in KindSeqs(n) : \E outcome \in SaveOutcomes :
          CreateStore(kinds, outcome)
    \/ \E n \in 1 .. MaxCreate : \E kinds \in KindSeqs(n) : CreateStoreFails(kinds)
    \/ \E n \in 1 .. MaxAppend : AppendStart(n)
    \/ \E ok \in BOOLEAN : AppendBatch(ok)
    \/ \E outcome \in SaveOutcomes : AppendSave(outcome)
    \/ LoadStore

StoreIdle == StoreInit

---------------------------------------------------------------------------
(* FSTQueryEngine._get_relevant_documents: the results of the two searches  *)
(* are concatenated and de-duplicated.                                      *)

RetrievedDoc(cid, text) ==
    [page_content |-> text,
     metadata |-> [chunk_id |-> IF cid = 0 THEN Missing ELSE [tag |-> "chunk", n |-> cid]]]
RetrievedPool ==
    { RetrievedDoc(1, 1), RetrievedDoc(1, 2), RetrievedDoc(2, 1),
      RetrievedDoc(0, 1), RetrievedDoc(0, 2) }
SearchResults == UNION { [1 .. n -> RetrievedPool] : n \in 0 .. MaxResults }

(* hash(doc.page_content): equal texts have equal hashes *)
hash_content(text) == (text * 31 + 7) % 1009
(* line 208: doc.metadata.get('chunk_id', hash(doc.page_content)) *)
DocIdByContent(doc) == [kind |-> "hash", v |-> hash_content(doc.page_content)]
doc_id(doc) ==
    IF doc.metadata.chunk_id # Missing
    THEN [kind |-> "chunk_id", v |-> doc.metadata.chunk_id.n]
    ELSE [kind |-> "hash", v |-> hash_content(doc.page_content)]

MergeInit ==
    /\ g_docs \in SearchResults
    /\ g_module_docs \in SearchResults
    /\ g_all_docs = <<>>
    /\ g_seen_ids = {}
    /\ g_unique_docs = <<>>
    /\ g_k = 0
    /\ g_pc = "search"

(* lines 190-206 *)
MergeStart ==
    /\ g_pc = "search"
    /\ g_all_docs' = g_docs \o g_module_docs
    /\ g_seen_ids' = {}
    /\ g_unique_docs' = <<>>
    /\ g_k' = 1
    /\ g_pc' = "loop"
    /\ UNCHANGED <<g_docs, g_module_docs>>
    /\ UNCHANGED nonMergeVars

(* lines 207-211: one turn of the loop *)
MergeStep ==
    /\ g_pc = "loop" /\ g_k <= Len(g_all_docs)
    /\ IF doc_id(g_all_docs[g_k]) \notin g_seen_ids
          THEN /\ g_seen_ids' = g_seen_ids \cup {doc_id(g_all_docs[g_k])}
               /\ g_unique_docs' = Append(g_unique_docs, g_all_docs[g_k])
          ELSE UNCHANGED <<g_seen_ids, g_unique_docs>>
    /\ g_k' = g_k + 1
    /\ UNCHANGED <<g_docs, g_module_docs, g_all_docs, g_pc>>
    /\ UNCHANGED nonMergeVars

(* line 212 *)
MergeReturn ==
    /\ g_pc = "loop" /\ g_k > Len(g_all_docs)
    /\ g_pc' = "returned"
    /\ UNCHANGED <<g_docs, g_module_docs, g_all_docs, g_seen_ids, g_unique_docs, g_k>>
    /\ UNCHANGED nonMergeVars

MergeNext == MergeStart \/ MergeStep \/ MergeReturn

MergeIdle ==
    /\ g_docs = <<>> /\ g_module_docs = <<>> /\ g_all_docs = <<>> /\ g_seen_ids = {}
    /\ g_unique_docs = <<>> /\ g_k = 0 /\ g_pc = "search"

---------------------------------------------------------------------------
(* FSSTEmbedder.similarity_search(query, documents, top_k).  The embedding  *)
(* of a document is represented by the level of its similarity to a query   *)
(* that could be embedded; level 0 is the zero vector.                      *)

Levels == 0 .. MaxLevel
Candidates ==
    UNION { [1 .. n -> Levels] : n \in 1 .. MaxCandidates }

(* _cosine_similarity: 0.0 when one of the norms is 0 *)
_cosine_similarity(query_embedding, doc_embedding) ==
    IF query_embedding = 0 \/ doc_embedding = 0 THEN 0 ELSE doc_embedding

(* the order of Python tuples (similarity, i) *)
TupleLess(a, b) == a[1] < b[1] \/ (a[1] = b[1] /\ a[2] < b[2])
TupleGreater(a, b) == TupleLess(b, a)

(* similarities.sort(reverse=True): the tuples in descending tuple order *)
RECURSIVE SortReverse(_)
SortReverse(tuples) ==
    IF tuples = {} THEN <<>>
    ELSE LET top == CHOOSE t \in tuples : \A u \in tuples \ {t} : TupleGreater(t, u)
         IN << top >> \o SortReverse(tuples \ {top})

SearchInit ==
    /\ s_documents \in Candidates
    /\ s_query \in {0, 1}
    /\ s_top_k \in 1 .. MaxCandidates
    /\ s_similarities = <<>>
    /\ s_result = <<>>
    /\ s_pc = "start"

(* lines 326-339: the (similarity, i) list, i counted from 0 *)
SearchScore ==
    /\ s_pc = "start"
    /\ s_similarities' = [k \in 1 .. Len(s_documents) |->
                            << _cosine_similarity(s_query, s_documents[k]), k - 1 >>]
    /\ s_pc' = "scored"
    /\ UNCHANGED <<s_documents, s_query, s_top_k, s_result>>
    /\ UNCHANGED nonSearchVars

(* line 341 *)
SearchSort ==
    /\ s_pc = "scored"
    /\ s_similarities' = SortReverse({ s_similarities[k] : k \in 1 .. Len(s_similarities) })
    /\ s_pc' = "sorted"
    /\ UNCHANGED <<s_documents, s_query, s_top_k, s_result>>
    /\ UNCHANGED nonSearchVars

(* line 343: the documents of the first top_k tuples, named by their index *)
SearchReturn ==
    /\ s_pc = "sorted"
    /\ s_result' = [k \in 1 .. Min(s_top_k, Len(s_similarities)) |-> s_similarities[k][2]]
    /\ s_pc' = "returned"
    /\ UNCHANGED <<s_documents, s_query, s_top_k, s_similarities>>
    /\ UNCHANGED nonSearchVars

SearchNext == SearchScore \/ SearchSort \/ SearchReturn

SearchIdle ==
    /\ s_documents = <<>> /\ s_query = 0 /\ s_top_k = 0 /\ s_similarities = <<>>
    /\ s_result = <<>> /\ s_pc = "start"

---------------------------------------------------------------------------
(* FSSTEmbedder.embed_documents(documents).  A text is a number, the i-th   *)
(* document of a call carries the text i; a vector is a number, 0 the zero  *)
(* vector; a chunk_id or a source is a tagged record.                       *)

embed_batch_size == 2
Uuids == 1 .. MaxUuid
NoVector == [tag |-> "none", n |-> 0]
ZeroVector == [tag |-> "vector", n |-> 0]
DocumentKinds == {"full", "no_chunk_id", "empty_chunk_id", "no_source"}

InputDocument(i, kind) ==
    [page_content |-> i,
     chunk_id  |-> CASE kind = "no_chunk_id"    -> [tag |-> "absent", n |-> 0]
                     [] kind = "empty_chunk_id" -> [tag |-> "empty", n |-> 0]
                     [] OTHER                   -> [tag |-> "given", n |-> i],
     source    |-> IF kind = "no_source" THEN [tag |-> "absent", n |-> 0]
                                         ELSE [tag |-> "given", n |-> i],
     embedding |-> NoVector]
InputDocuments ==
    UNION { { [i \in 1 .. n |-> InputDocument(i, kinds[i])] : kinds \in [1 .. n -> DocumentKinds] }
            : n \in 1 .. MaxEmbedDocs }

(* lines 241-244 and 257-260: i is the 0-based position in documents *)
CoerceDocument(doc, i, uuid) ==
    [doc EXCEPT
        !.chunk_id = IF doc.chunk_id.tag = "absent"
                     THEN [tag |-> "doc_i_uuid", n |-> i * (MaxUuid + 1) + uuid]
                     ELSE @,
        !.source   = IF doc.source.tag = "absent"
                     THEN [tag |-> "document_i", n |-> i]
                     ELSE @]
(* _ensure_document_ids: a falsy chunk_id becomes formation_id + uuid *)
_ensure_document_ids(doc, uuid) ==
    [doc EXCEPT
        !.chunk_id = IF doc.chunk_id.tag \in {"absent", "empty"}
                     THEN [tag |-> "formation_uuid", n |-> uuid]
                     ELSE @]

(* _augment_text_with_metadata: the ID_CHUNK header in front of the text *)
_augment_text_with_metadata(doc) ==
    [header |-> doc.chunk_id, text |-> doc.page_content]

(* self.model.embed_documents followed by _apply_domain_boost, which leaves *)
(* the direction of the normalized vector unchanged                         *)
ModelVector(text) ==
    [tag |-> "vector", n |-> ((text.text * 5 + text.header.n * 3) % 11) + 1]

EmbedBatchOf(texts, i) ==
    SubSeq(texts, i + 1, Min(i + embed_batch_size, Len(texts)))
ZerosForFirst(batch) == << ZeroVector >>
ZerosFor(batch) == [k \in 1 .. Len(batch) |-> ZeroVector]

EmbedInit ==
    /\ e_documents \in InputDocuments
    /\ e_processed = <<>>
    /\ e_texts = <<>>
    /\ e_embeddings = <<>>
    /\ e_i = 0
    /\ e_failed = {}
    /\ e_prev = <<>>
    /\ e_pc = "start"

(* lines 234-270: coercion, then _ensure_document_ids; at most one of the   *)
(* two draws a uuid4 for a given document, uuids[k] is that draw            *)
EmbedCoerce(uuids) ==
    /\ e_pc = "start"
    /\ e_processed' = [k \in 1 .. Len(e_documents) |->
                         _ensure_document_ids(
                             CoerceDocument(e_documents[k], k - 1, uuids[k]),
                             uuids[k])]
    /\ e_pc' = "coerced"
    /\ UNCHANGED <<e_documents, e_texts, e_embeddings, e_i, e_failed, e_prev>>
    /\ UNCHANGED nonEmbedVars

(* lines 272-276 *)
EmbedAugment ==
    /\ e_pc = "coerced"
    /\ e_texts' = [k \in 1 .. Len(e_processed) |-> _augment_text_with_metadata(e_processed[k])]
    /\ e_i' = 0
    /\ e_pc' = "batches"
    /\ UNCHANGED <<e_documents, e_processed, e_embeddings, e_failed, e_prev>>
    /\ UNCHANGED nonEmbedVars

(* lines 278-295: one turn of the batch loop *)
EmbedBatch(ok) ==
    /\ e_pc = "batches"
    /\ e_i < Len(e_texts)
    /\ LET batch == EmbedBatchOf(e_texts, e_i)
       IN  IF ok
           THEN /\ e_embeddings' = e_embeddings \o [k \in 1 .. Len(batch) |-> ModelVector(batch[k])]
                /\ UNCHANGED e_failed
           ELSE /\ e_embeddings' = e_embeddings \o ZerosFor(batch)
                /\ e_failed' = e_failed \cup {e_i}
    /\ e_i' = e_i + embed_batch_size
    /\ UNCHANGED <<e_documents, e_processed, e_texts, e_prev, e_pc>>
    /\ UNCHANGED nonEmbedVars

(* lines 297-304: zip(processed_docs, embeddings) and the return *)
EmbedAttach ==
    /\ e_pc = "batches"
    /\ e_i >= Len(e_texts)
    /\ e_processed' = [k \in 1 .. Len(e_processed) |->
                         IF k <= Len(e_embeddings)
                         THEN [e_processed[k] EXCEPT !.embedding = e_embeddings[k]]
                         ELSE e_processed[k]]
    /\ e_pc' = "returned"
    /\ UNCHANGED <<e_documents, e_texts, e_embeddings, e_i, e_failed, e_prev>>
    /\ UNCHANGED nonEmbedVars

(* a further call of embed_documents on documents equal to the first ones *)
EmbedAgain ==
    /\ e_pc = "returned"
    /\ e_prev = <<>>
    /\ e_prev' = [k \in 1 .. Len(e_processed) |->
                     [chunk_id |-> e_processed[k].chunk_id, source |-> e_processed[k].source]]
    /\ e_processed' = <<>>
    /\ e_texts' = <<>>
    /\ e_embeddings' = <<>>
    /\ e_i' = 0
    /\ e_failed' = {}
    /\ e_pc' = "start"
    /\ UNCHANGED e_documents
    /\ UNCHANGED nonEmbedVars

EmbedNext ==
    \/ \E uuids \in [1 .. Len(e_documents) -> Uuids] : EmbedCoerce(uuids)
    \/ EmbedAugment
    \/ \E ok \in BOOLEAN : EmbedBatch(ok)
    \/ EmbedAttach
    \/ EmbedAgain

EmbedIdle ==
    /\ e_documents = <<>> /\ e_processed = <<>> /\ e_texts = <<>> /\ e_embeddings = <<>>
    /\ e_i = 0 /\ e_failed = {} /\ e_prev = <<>> /\ e_pc = "returned"

---------------------------------------------------------------------------
(* VectorStoreManager.create_vector_store(documents) on inputs of any type. *)
(* An input is its Python type with the passage it would be coerced to.     *)

InputTypes == {"Document", "dict", "str", "other"}
CreateInput(n, type, kind) == [type |-> type, doc |-> Passage(n, kind)]
CreateInputs(n) ==
    { CreateInput(n, type, kind) : type \in {"Document", "dict"}, kind \in PassageKinds }
        \cup { CreateInput(n, type, "no_chunk_id") : type \in {"str", "other"} }
CreateDocuments ==
    UNION { { d \in [1 .. n -> UNION { CreateInputs(k) : k \in 1 .. n }] :
                \A k \in 1 .. n : d[k] \in CreateInputs(k) }
            : n \in 1 .. MaxInputs }

(* _validate_document on any input, as a sequence of zero or one Document.  *)
(* uuid4 is not imported in vector_store.py, so every branch that builds a  *)
(* chunk_id raises NameError, caught at line 82: None.  A str always takes  *)
(* that branch (line 75).                                                   *)
ValidateInput(input, index) ==
    CASE input.type \in {"Document", "dict"} ->
             IF IsValidDocument(input.doc)
             THEN << _validate_document(input.doc, index) >>
             ELSE <<>>
      [] input.type = "str" -> <<>>
      [] OTHER -> <<>>

CreateInit ==
    /\ c_documents \in CreateDocuments
    /\ c_embed_ok \in BOOLEAN
    /\ c_valid_docs = <<>>
    /\ c_i = 0
    /\ c_result = "running"

(* lines 93-99: one turn of the validation loop *)
CreateValidate ==
    /\ c_result = "running"
    /\ c_i < Len(c_documents)
    /\ c_valid_docs' = c_valid_docs \o ValidateInput(c_documents[c_i + 1], c_i)
    /\ c_i' = c_i + 1
    /\ UNCHANGED <<c_documents, c_embed_ok, c_result>>
    /\ UNCHANGED nonCreateVars

(* lines 103-121: None without valid documents or when building the index   *)
(* raises, the store otherwise                                              *)
CreateReturn ==
    /\ c_result = "running"
    /\ c_i = Len(c_documents)
    /\ c_result' = IF c_valid_docs = <<>> \/ ~c_embed_ok THEN "none" ELSE "store"
    /\ UNCHANGED <<c_documents, c_valid_docs, c_i, c_embed_ok>>
    /\ UNCHANGED nonCreateVars

CreateNext == CreateValidate \/ CreateReturn

CreateIdle ==
    /\ c_documents = <<>> /\ c_valid_docs = <<>> /\ c_i = 0 /\ c_embed_ok = TRUE
    /\ c_result = "none"

---------------------------------------------------------------------------
(* FSSTChunker._calculate_structure_confidence(text).  The function counts  *)
(* lines by what they contain, so a text is the number of its lines of each *)
(* kind.  The kinds, with an example line:                                  *)
(*   prose          "Le master dure deux ans"                               *)
(*   cells3_open    "a | b | c"         3 cells, 2 pipes                    *)
(*   cells4_open    "a | b | c | d"     4 cells, 3 pipes                    *)
(*   cells3_closed  "| a | b | c |"     3 cells, 4 pipes                    *)
(*   rule           "----------"                                            *)
(*   bullet         "- item"                                                *)
(*   numbered       "1. item"                                               *)

LineKinds == <<"prose", "cells3_open", "cells4_open", "cells3_closed", "rule",
               "bullet", "numbered">>
LineKindSet == { LineKinds[k] : k \in 1 .. Len(LineKinds) }
PipeCount(kind) ==
    CASE kind = "cells3_open" -> 2
      [] kind = "cells4_open" -> 3
      [] kind = "cells3_closed" -> 4
      [] OTHER -> 0
CellCount(kind) ==
    CASE kind \in {"cells3_open", "cells3_closed"} -> 3
      [] kind = "cells4_open" -> 4
      [] OTHER -> 0

(* the texts of 1 .. n lines: sequences of counts, one count per kind *)
RECURSIVE CountSeqs(_, _)
CountSeqs(k, n) ==
    IF k = 0 THEN { <<>> }
    ELSE UNION { { << c >> \o rest : rest \in CountSeqs(k - 1, n - c) } : c \in 0 .. n }
Texts ==
    { [kind \in LineKindSet |->
          counts[CHOOSE k \in 1 .. Len(LineKinds) : LineKinds[k] = kind]]
      : counts \in CountSeqs(Len(LineKinds), MaxLines) \ { [k \in 1 .. Len(LineKinds) |-> 0] } }

RECURSIVE SumOver(_, _)
SumOver(f, S) ==
    IF S = {} THEN 0
    ELSE LET x == CHOOSE y \in S : TRUE IN f[x] + SumOver(f, S \ {x})
Max(a, b) == IF a > b THEN a ELSE b

(* line 208: '|' in line and line.count('|') > 2 *)
IsTableLineOver3(kind) == PipeCount(kind) > 3
IsTableLine(kind) == PipeCount(kind) > 2

(* lines 198-223; the value is num / den *)
NoConfidence == [num |-> 0, den |-> 1]
_calculate_structure_confidence(lines) ==
    LET total_lines == SumOver(lines, LineKindSet)
        table_indicators ==
            SumOver(lines, { k \in LineKindSet : IsTableLine(k) }) + lines["rule"]
        bullet_points == lines["bullet"]
        numbered_lists == lines["numbered"]
        \* min(1.0, (x / total_lines) * f), in units of 1 / total_lines
        table_score == Min(total_lines, table_indicators * 3)
        bullet_score == Min(total_lines, bullet_points * 2)
        number_score == Min(total_lines, numbered_lists * 2)
        confidence == Max(table_score, Max(bullet_score, number_score))
    IN  IF total_lines < 2 THEN [num |-> 0, den |-> 1]
        ELSE IF total_lines < 3 /\ confidence * 10 < 7 * total_lines
             THEN [num |-> confidence * 7, den |-> total_lines * 10]
             ELSE [num |-> confidence * 10, den |-> total_lines * 10]

ConfInit ==
    /\ t_lines \in Texts
    /\ t_confidence = NoConfidence
    /\ t_pc = "text"

ConfScore ==
    /\ t_pc = "text"
    /\ t_confidence' = _calculate_structure_confidence(t_lines)
    /\ t_pc' = "scored"
    /\ UNCHANGED t_lines
    /\ UNCHANGED nonConfVars

ConfNext == ConfScore

ConfIdle ==
    /\ t_lines = [kind \in LineKindSet |-> 0] /\ t_confidence = NoConfidence
    /\ t_pc = "scored"

---------------------------------------------------------------------------
(* FSSTChunker.chunk_documents(documents).  A document is its content       *)
(* ("blank": only white space; "prose"; "master rsi": text that names a     *)
(* formation) and its metadata ("rich": source, formation_id,               *)
(* document_type and processed_at are set; "bare": empty).  The metadata of *)
(* a chunk is the set of its keys and the value of formation_id.            *)

SplitContents == {"blank", "prose", "master rsi"}
SourceMetadata == {"rich", "bare"}
SplitDocuments ==
    UNION { [1 .. n -> [content : SplitContents, metadata : SourceMetadata]]
            : n \in 1 .. MaxSplitDocs }
SourceKeys(doc) ==
    IF doc.metadata = "rich"
    THEN {"source", "formation_id", "document_type", "processed_at"}
    ELSE {}
SourceFormation(doc) == IF doc.metadata = "rich" THEN "MST_RSI" ELSE "absent"

(* _extract_formation_id on the text *)
_extract_formation_id(text) ==
    IF text = "master rsi" THEN "MST_RSI" ELSE "UNKNOWN"

(* lines 184-196 and 266-271: the metadata that replaces the chunk's own,   *)
(* built from the metadata of the source document                           *)
_enrich_metadata(doc) ==
    [keys |-> {"chunk_id", "source", "formation_id", "document_type", "chunk_index",
               "processed_at"} \cup SourceKeys(doc) \cup {"total_chunks", "is_structured"},
     formation_id |-> IF doc.metadata = "rich" THEN SourceFormation(doc) ELSE "UNK"]
(* lines 144-182: what the last fallback derives from the text *)
_extract_metadata(doc) ==
    [keys |-> {"formation_id", "document_type", "processed_at"}
                 \cup (IF doc.metadata = "rich" THEN {"source"} ELSE {}),
     formation_id |-> _extract_formation_id(doc.content)]

(* split_documents on one document: n pieces of its text, none of a blank   *)
(* text, each with the metadata given                                       *)
Pieces(doc, n, metadata) ==
    IF doc.content = "blank" THEN <<>>
    ELSE [k \in 1 .. n |-> [content |-> doc.content, metadata |-> metadata, path |-> "split"]]

SplitInit ==
    /\ k_documents \in SplitDocuments
    /\ k_i = 0
    /\ k_all_chunks = <<>>
    /\ k_result = <<>>
    /\ k_pc = "split"

(* lines 246-247: a document of white space is skipped *)
SplitSkipsBlank ==
    /\ k_pc = "split" /\ k_i < Len(k_documents)
    /\ k_documents[k_i + 1].content = "blank"
    /\ k_i' = k_i + 1
    /\ UNCHANGED <<k_documents, k_all_chunks, k_result, k_pc>>
    /\ UNCHANGED nonSplitVars

(* lines 249-273: the document is split in n chunks, their metadata replaced *)
SplitDocument(n) ==
    /\ k_pc = "split" /\ k_i < Len(k_documents)
    /\ k_documents[k_i + 1].content # "blank"
    /\ k_all_chunks' = k_all_chunks \o
          Pieces(k_documents[k_i + 1], n, _enrich_metadata(k_documents[k_i + 1]))
    /\ k_i' = k_i + 1
    /\ UNCHANGED <<k_documents, k_result, k_pc>>
    /\ UNCHANGED nonSplitVars

(* line 275 *)
SplitReturn ==
    /\ k_pc = "split" /\ k_i = Len(k_documents)
    /\ k_result' = k_all_chunks
    /\ k_pc' = "returned"
    /\ UNCHANGED <<k_documents, k_i, k_all_chunks>>
    /\ UNCHANGED nonSplitVars

(* lines 277-278: splitting a document raises *)
SplitRaises ==
    /\ k_pc = "split" /\ k_i < Len(k_documents)
    /\ k_documents[k_i + 1].content # "blank"
    /\ k_pc' = "fallback"
    /\ UNCHANGED <<k_documents, k_i, k_all_chunks, k_result>>
    /\ UNCHANGED nonSplitVars

RECURSIVE FallbackPieces(_, _, _)
FallbackPieces(documents, k, n) ==
    IF k > Len(documents) THEN <<>>
    ELSE Pieces(documents[k], n,
                [keys |-> SourceKeys(documents[k]),
                 formation_id |-> SourceFormation(documents[k])])
         \o FallbackPieces(documents, k + 1, n)

(* lines 283-297: every document is split again with the fallback splitter, *)
(* the chunks keep the metadata of their document                           *)
FallbackSplit(n) ==
    /\ k_pc = "fallback"
    /\ k_result' = FallbackPieces(k_documents, 1, n)
    /\ k_pc' = "returned"
    /\ UNCHANGED <<k_documents, k_i, k_all_chunks>>
    /\ UNCHANGED nonSplitVars

(* lines 298-303: the fallback splitter raises too, documents[0] is returned *)
FallbackRaises ==
    /\ k_pc = "fallback"
    /\ k_result' = << [content |-> k_documents[1].content,
                       metadata |-> _extract_metadata(k_documents[1]),
                       path |-> "unsplit"] >>
    /\ k_pc' = "returned"
    /\ UNCHANGED <<k_documents, k_i, k_all_chunks>>
    /\ UNCHANGED nonSplitVars

SplitNext ==
    \/ SplitSkipsBlank
    \/ \E n \in 1 .. MaxPieces : SplitDocument(n)
    \/ SplitReturn
    \/ SplitRaises
    \/ \E n \in 1 .. MaxPieces : FallbackSplit(n)
    \/ FallbackRaises

SplitIdle ==
    /\ k_documents = <<>> /\ k_i = 0 /\ k_all_chunks = <<>> /\ k_result = <<>>
    /\ k_pc = "returned"

---------------------------------------------------------------------------
(* PipelineCache.save_intermediate_result / load_intermediate_result on the *)
(* files of the cache directory.                                            *)

(* lines 131-220.  A missing file gives the empty result at line 138; the   *)
(* open, json.load and the conversions are inside the try of line 140, whose *)
(* except returns the empty result as well.  The result is its type and the *)
(* number of its items.                                                     *)
EmptyResult(key) ==
    [key |-> key, raised |-> FALSE,
     type |-> IF key.stage = "db_stored_chunks" THEN "set" ELSE "list", n |-> 0]
LoadWithoutTry(key, file) ==
    CASE file.kind = "absent" -> EmptyResult(key)
      [] file.kind = "json" ->
            IF key.stage = "db_stored_chunks"
            THEN [key |-> key, raised |-> FALSE, type |-> "set",
                  n |-> Cardinality({ file.data[k] : k \in 1 .. Len(file.data) })]
            ELSE [key |-> key, raised |-> FALSE, type |-> "list", n |-> Len(file.data)]
      [] OTHER -> [key |-> key, raised |-> TRUE, type |-> "none", n |-> 0]
load_artifact(key, file) ==
    CASE file.kind = "absent" -> EmptyResult(key)
      [] file.kind = "json" ->
            IF key.stage = "db_stored_chunks"
            THEN [key |-> key, raised |-> FALSE, type |-> "set",
                  n |-> Cardinality({ file.data[k] : k \in 1 .. Len(file.data) })]
            ELSE [key |-> key, raised |-> FALSE, type |-> "list", n |-> Len(file.data)]
      [] OTHER -> EmptyResult(key)

ArtifactInit ==
    /\ a_files = NoArtifacts
    /\ a_result = NoResult
    /\ a_wiped = FALSE

(* a cache directory just created, over a data directory whose files all   *)
(* hold the same content                                                    *)
ArtifactCacheInit ==
    /\ content \in [Paths -> {1, Absent}]
    /\ mtime = [p \in Paths |-> 0]
    /\ clock = 0
    /\ processed_files = EmptyIndex
    /\ index_file = AbsentFile
    /\ cache_pc = "open"
    /\ lastMarked = [p \in Paths |-> Absent]
    /\ durable = EmptyIndex
    /\ last_op = NoOp

(* save_intermediate_result(stage, data, file_id) with data to write *)
SaveArtifact(key, data) ==
    /\ cache_pc = "open"
    /\ a_files' = [a_files EXCEPT ![key] = [kind |-> "json", data |-> data]]
    /\ last_op' = [op |-> "save", path |-> <<>>, to |-> <<>>, was |-> FALSE]
    /\ a_result' = NoResult
    /\ UNCHANGED a_wiped
    /\ UNCHANGED <<content, mtime, clock, processed_files, index_file, cache_pc, lastMarked,
                   durable>>
    /\ UNCHANGED nonCacheArtifactVars

(* the file is cut short, overwritten or made unreadable from outside *)
DamageArtifact(key, kind) ==
    /\ cache_pc = "open"
    /\ a_files[key].kind = "json"
    /\ a_files' = [a_files EXCEPT ![key] = [kind |-> kind, data |-> <<>>]]
    /\ last_op' = [op |-> "damage", path |-> <<>>, to |-> <<>>, was |-> FALSE]
    /\ a_result' = NoResult
    /\ UNCHANGED a_wiped
    /\ UNCHANGED <<content, mtime, clock, processed_files, index_file, cache_pc, lastMarked,
                   durable>>
    /\ UNCHANGED nonCacheArtifactVars

LoadArtifact(key) ==
    /\ cache_pc = "open"
    /\ a_result' = load_artifact(key, a_files[key])
    /\ UNCHANGED <<a_files, a_wiped>>
    /\ UNCHANGED nonArtifactVars

ArtifactNext ==
    \/ \E p \in Paths : MarkProcessed(p)
    \/ \E key \in ArtifactKeys, data \in ArtifactData : SaveArtifact(key, data)
    \/ \E key \in ArtifactKeys, kind \in {"garbage", "unreadable"} : DamageArtifact(key, kind)
    \/ \E key \in ArtifactKeys : LoadArtifact(key)
    \/ ClearCache

ArtifactIdle == ArtifactInit

---------------------------------------------------------------------------
(* FSTQueryEngine._build_enhanced_context over the passages a search        *)
(* returned.  The searches of langchain's FAISS return the Document objects *)
(* of the docstore themselves, so relevant_docs are references to stored    *)
(* passages.  Of the metadata of a passage only module_info is kept: a      *)
(* module is the state of its three standard fields.                        *)

Modules ==
    [code : {"M1", "absent"}, intitule : {"given", "absent"},
     volume_horaire : {"given", "absent"}]
StoredPassage(n, module) == [page_content |-> n, module_info |-> module]
Docstores ==
    UNION { { [k \in 1 .. n |-> StoredPassage(k, modules[k])] : modules \in [1 .. n -> Modules] }
            : n \in 1 .. MaxStored }

(* _standardize_module: the missing fields are written into the dict given  *)
_standardize_module(module) ==
    [code |-> module.code,
     intitule |-> IF module.intitule = "absent" THEN "Non spécifié" ELSE module.intitule,
     volume_horaire |-> IF module.volume_horaire = "absent" THEN "zeros"
                        ELSE module.volume_horaire]

(* lines 289-292 of _aggregate_modules on one passage: module_info is       *)
(* standardized in place when it has a code                                 *)
AggregatedPassage(doc) ==
    IF doc.module_info.code # "absent"
    THEN [doc EXCEPT !.module_info = _standardize_module(@)]
    ELSE doc

ContextInit ==
    /\ x_docstore \in Docstores
    /\ x_loaded = x_docstore
    /\ x_docs = <<>>
    /\ x_modules = {}
    /\ x_queries = 0
    /\ x_pc = "idle"

(* _get_relevant_documents: some stored passages, by reference, each once  *)
(* (unique_docs)                                                            *)
ContextRetrieve(refs) ==
    /\ x_pc = "idle" /\ x_queries < MaxQueries
    /\ \A i, j \in 1 .. Len(refs) : refs[i] = refs[j] => i = j
    /\ x_docs' = refs
    /\ x_modules' = {}
    /\ x_pc' = "retrieved"
    /\ UNCHANGED <<x_docstore, x_queries, x_loaded>>
    /\ UNCHANGED nonContextVars

(* _build_enhanced_context: _aggregate_formation_info reads the metadata,   *)
(* _aggregate_modules standardizes the modules of the passages referenced   *)
ContextBuild ==
    /\ x_pc = "retrieved"
    /\ x_docstore' = [k \in 1 .. Len(x_docstore) |->
                        IF \E j \in 1 .. Len(x_docs) : x_docs[j] = k
                        THEN AggregatedPassage(x_docstore[k])
                        ELSE x_docstore[k]]
    /\ x_modules' = { AggregatedPassage(x_docstore[x_docs[j]]).module_info :
                        j \in { i \in 1 .. Len(x_docs) :
                                  x_docstore[x_docs[i]].module_info.code # "absent" } }
    /\ x_pc' = "built"
    /\ UNCHANGED <<x_docs, x_queries, x_loaded>>
    /\ UNCHANGED nonContextVars

ContextReturn ==
    /\ x_pc = "built"
    /\ x_queries' = x_queries + 1
    /\ x_pc' = "idle"
    /\ UNCHANGED <<x_docstore, x_docs, x_modules, x_loaded>>
    /\ UNCHANGED nonContextVars

ContextNext ==
    \/ \E n \in 1 .. Len(x_docstore) : \E refs \in [1 .. n -> 1 .. Len(x_docstore)] :
          ContextRetrieve(refs)
    \/ ContextBuild
    \/ ContextReturn

ContextIdle ==
    /\ x_docstore = <<>> /\ x_loaded = <<>> /\ x_docs = <<>> /\ x_modules = {}
    /\ x_queries = 0 /\ x_pc = "idle"

---------------------------------------------------------------------------
(* Specifications *)
RetryIdle ==
    /\ r_retries = 0 /\ r_backoff = 0 /\ r_plan = 0 /\ r_attempts = 0
    /\ r_invocations = 0 /\ r_slept = <<>> /\ r_pc = "idle"

CacheIdle ==
    /\ content = [p \in Paths |-> Absent]
    /\ mtime = [p \in Paths |-> 0]
    /\ clock = 0
    /\ processed_files = EmptyIndex
    /\ index_file = AbsentFile
    /\ cache_pc = "open"
    /\ lastMarked = [p \in Paths |-> Absent]
    /\ durable = EmptyIndex
    /\ last_op = NoOp

PipeIdle == PipeInit

InitCache == CacheInit /\ RetryIdle /\ PipeIdle /\ QueryIdle /\ StoreIdle /\ MergeIdle /\ SearchIdle /\ EmbedIdle /\ CreateIdle /\ ConfIdle /\ SplitIdle /\ ArtifactIdle /\ ContextIdle
SpecCache == InitCache /\ [][CacheNext]_vars

SpecCrash == InitCache /\ [][CrashNext]_vars

InitRetry == RetryInit /\ CacheIdle /\ PipeIdle /\ QueryIdle /\ StoreIdle /\ MergeIdle /\ SearchIdle /\ EmbedIdle /\ CreateIdle /\ ConfIdle /\ SplitIdle /\ ArtifactIdle /\ ContextIdle
SpecRetry == InitRetry /\ [][RetryNext]_vars

InitPipeline == PipeFilesInit /\ PipeInit /\ RetryIdle /\ QueryIdle /\ StoreIdle /\ MergeIdle /\ SearchIdle /\ EmbedIdle /\ CreateIdle /\ ConfIdle /\ SplitIdle /\ ArtifactIdle /\ ContextIdle
SpecPipeline == InitPipeline /\ [][PipeNext]_vars

InitQuery == QueryInit /\ CacheIdle /\ PipeIdle /\ RetryIdle /\ StoreIdle /\ MergeIdle /\ SearchIdle /\ EmbedIdle /\ CreateIdle /\ ConfIdle /\ SplitIdle /\ ArtifactIdle /\ ContextIdle
SpecQuery == InitQuery /\ [][QueryNext]_vars

InitStore == StoreInit /\ CacheIdle /\ PipeIdle /\ RetryIdle /\ QueryIdle /\ MergeIdle /\ SearchIdle /\ EmbedIdle /\ CreateIdle /\ ConfIdle /\ SplitIdle /\ ArtifactIdle /\ ContextIdle
SpecStore == InitStore /\ [][StoreNext]_vars

InitMerge == MergeInit /\ CacheIdle /\ PipeIdle /\ RetryIdle /\ QueryIdle /\ StoreIdle /\ SearchIdle /\ EmbedIdle /\ CreateIdle /\ ConfIdle /\ SplitIdle /\ ArtifactIdle /\ ContextIdle
SpecMerge == InitMerge /\ [][MergeNext]_vars

InitSearch ==
    SearchInit /\ CacheIdle /\ PipeIdle /\ RetryIdle /\ QueryIdle /\ StoreIdle /\ MergeIdle
        /\ EmbedIdle /\ CreateIdle /\ ConfIdle /\ SplitIdle /\ ArtifactIdle /\ ContextIdle
SpecSearch == InitSearch /\ [][SearchNext]_vars

InitEmbed ==
    EmbedInit /\ CacheIdle /\ PipeIdle /\ RetryIdle /\ QueryIdle /\ StoreIdle /\ MergeIdle
        /\ SearchIdle /\ CreateIdle /\ ConfIdle /\ SplitIdle /\ ArtifactIdle /\ ContextIdle
SpecEmbed == InitEmbed /\ [][EmbedNext]_vars

InitCreate ==
    CreateInit /\ CacheIdle /\ PipeIdle /\ RetryIdle /\ QueryIdle /\ StoreIdle /\ MergeIdle
        /\ SearchIdle /\ EmbedIdle /\ ConfIdle /\ SplitIdle /\ ArtifactIdle /\ ContextIdle
SpecCreate == InitCreate /\ [][CreateNext]_vars

InitConf ==
    ConfInit /\ CacheIdle /\ PipeIdle /\ RetryIdle /\ QueryIdle /\ StoreIdle /\ MergeIdle
        /\ SearchIdle /\ EmbedIdle /\ CreateIdle /\ SplitIdle /\ ArtifactIdle /\ ContextIdle
SpecConf == InitConf /\ [][ConfNext]_vars

InitSplit ==
    SplitInit /\ CacheIdle /\ PipeIdle /\ RetryIdle /\ QueryIdle /\ StoreIdle /\ MergeIdle
        /\ SearchIdle /\ EmbedIdle /\ CreateIdle /\ ConfIdle /\ ArtifactIdle /\ ContextIdle
SpecSplit == InitSplit /\ [][SplitNext]_vars

InitArtifact ==
    ArtifactCacheInit /\ ArtifactInit /\ PipeIdle /\ RetryIdle /\ QueryIdle /\ StoreIdle /\ MergeIdle
        /\ SearchIdle /\ EmbedIdle /\ CreateIdle /\ ConfIdle /\ SplitIdle /\ ContextIdle
SpecArtifact == InitArtifact /\ [][ArtifactNext]_vars

InitContext ==
    ContextInit /\ CacheIdle /\ PipeIdle /\ RetryIdle /\ QueryIdle /\ StoreIdle /\ MergeIdle
        /\ SearchIdle /\ EmbedIdle /\ CreateIdle /\ ConfIdle /\ SplitIdle /\ ArtifactIdle
SpecContext == InitContext /\ [][ContextNext]_vars

---------------------------------------------------------------------------
(* Claims about PipelineCache *)

(* C1: is_file_processed(p) is true exactly when p was marked and its       *)
(* content is the content it had when it was last marked (and the cache was *)
(* not cleared since): an edit after the mark makes it false until p is     *)
(* marked again.                                                            *)
C1_HashDecides ==
    \A p \in Paths :
        content[p] # Absent => (IsProcessed(p) <=> lastMarked[p] = content[p])

C1_EditDetected ==
    /\ last_op.op = "edit" /\ last_op.was
    /\ ~IsProcessed(last_op.path)

(* C5: after a crash during mark_file_as_processed and a re-open of the     *)
(* cache on the same directory, every record of the last completed save is  *)
(* still there.                                                             *)
C5_NoRecordLost ==
    cache_pc = "open" =>
        \A p \in Paths : durable[p] # NoRec => processed_files[p] # NoRec

---------------------------------------------------------------------------
(* Claims about process_data_pipeline *)

StoredIds == [k \in 1 .. Len(store.docs) |-> store.docs[k].chunk_id]
NoTwoEqual(seq) == \A i, j \in 1 .. Len(seq) : i # j => seq[i] # seq[j]
FilesOfRun == { pl_files[k] : k \in 1 .. Len(pl_files) }
DistinctFileIds == \A p, q \in Paths : (IsPresent(p) /\ IsPresent(q) /\ p # q) => file_id(p) # file_id(q)

(* C2: a run over a folder in which every file is already processed leaves  *)
(* the persisted vector index as it was when the run started.               *)
C2_RerunLeavesIndexUnchanged ==
    (pl_pc = "done" /\ run_unchanged /\ store_at_start.exists) => store = store_at_start

(* C3: the chunks a processed, unmodified file contributes from its chunk   *)
(* cache entry are the chunks produced by the run that processed it: same   *)
(* count, order, text and chunk_id, and no chunk_id twice.                  *)
C3_CachedChunksAreTheProducedOnes ==
    contrib.hit =>
        /\ Len(contrib.chunks) = Len(produced[contrib.path])
        /\ \A k \in 1 .. Len(contrib.chunks) :
              /\ k <= Len(produced[contrib.path])
              /\ contrib.chunks[k].chunk_id = produced[contrib.path][k].chunk_id
              /\ contrib.chunks[k].text = produced[contrib.path][k].text
        /\ NoTwoEqual([k \in 1 .. Len(contrib.chunks) |-> contrib.chunks[k].chunk_id])

(* C4: no two passages of the persisted vector index have the same          *)
(* chunk_id (stated for folders whose files have distinct file ids).        *)
C4_StoredChunkIdsUnique ==
    DistinctFileIds => NoTwoEqual(StoredIds)

(* C10: when a stage raised for one file, the loop still reached every file *)
(* of the folder, and the run returned failure only with no chunk at all.   *)
C10_ErrorIsolatedToOneFile ==
    (pl_pc = "done" /\ raised_at # NoPath) =>
        /\ FilesOfRun \subseteq visited
        /\ pl_result = "false" => all_chunks = <<>>

(* C27: when a run has ended, however it ended, a file whose record matches *)
(* its current hash has the chunks of the run that recorded it in the       *)
(* persisted vector index.                                                  *)
ChunkIsStored(chunk) ==
    \E j \in 1 .. Len(store.docs) : store.docs[j].chunk_id = chunk.chunk_id
C27_RecordImpliesChunksIndexed ==
    pl_pc = "done" =>
        \A p \in Paths :
            (IsPresent(p) /\ IsProcessed(p)) =>
                /\ store.exists
                /\ \A k \in 1 .. Len(produced[p]) : ChunkIsStored(produced[p][k])

(* C28: the passages handed to the vector-store stage of a run are the     *)
(* chunks gathered in that run, embedded: as many, in the same order, each  *)
(* with the chunk_id, the source and the part of the content of its chunk.  *)
SamePassage(embedded, chunk) ==
    /\ embedded.chunk_id = chunk.chunk_id
    /\ embedded.source = chunk.source
    /\ embedded.text.c = chunk.text.c
    /\ embedded.text.part = chunk.text.part
C28_EmbeddedAreTheGatheredChunks ==
    pl_pc = "store" =>
        /\ Len(docs_emb) = Len(all_chunks)
        /\ \A k \in 1 .. Len(all_chunks) :
              k <= Len(docs_emb) /\ SamePassage(docs_emb[k], all_chunks[k])

---------------------------------------------------------------------------
(* Claims about the vector store *)

SlotsOf(ff) == 0 .. Len(ff.index) - 1
EntriesOfSlot(jf, slot) ==
    { e \in jf.index_to_docstore_id : e.key = StrKey(slot) }
DocsOfId(jf, id) == { k \in 1 .. Len(jf.docstore) : jf.docstore[k].id = id }
PersistedConsistent(ff, jf) ==
    /\ Len(jf.docstore) = Cardinality(jf.index_to_docstore_id)
    /\ \A slot \in SlotsOf(ff) :
          /\ Cardinality(EntriesOfSlot(jf, slot)) = 1
          /\ \A e \in EntriesOfSlot(jf, slot) : Cardinality(DocsOfId(jf, e.id)) = 1

(* C11: after a save that succeeded, whatever creates and appends came      *)
(* before it, the persisted docstore and slot mapping have the same size    *)
(* and every slot of the persisted index maps to exactly one docstore entry *)
C11_SavedStoreConsistent ==
    vs_last_save = "ok" => PersistedConsistent(vs_faiss_file, vs_json_file)

RECURSIVE KeptBatches(_, _, _)
KeptBatches(docs, failed, i) ==
    IF i >= Len(docs) THEN <<>>
    ELSE (IF i \in failed THEN <<>> ELSE SubSeq(docs, i + 1, Min(i + batch_size, Len(docs))))
         \o KeptBatches(docs, failed, i + batch_size)
DocsOf(docstore) == [k \in 1 .. Len(docstore) |-> docstore[k].doc]

(* C13: an append that ended with a successful save leaves in the saved     *)
(* docstore the passages that were there before, followed by the passages   *)
(* of every batch that did not fail, in input order.                        *)
C13_FailedBatchSkippedOthersKept ==
    (vs_pc = "idle" /\ vs_docs # <<>> /\ vs_last_save = "ok") =>
        DocsOf(vs_json_file.docstore) =
            DocsOf(vs_pre) \o KeptBatches(vs_docs, vs_failed, 0)

C13_MiddleBatchFailed ==
    /\ vs_pc = "idle" /\ vs_docs # <<>> /\ vs_last_save = "ok"
    /\ \E j \in vs_failed :
          /\ \E h \in 0 .. j - 1 : h % batch_size = 0 /\ h \notin vs_failed
          /\ \E h \in j + 1 .. Len(vs_docs) - 1 : h % batch_size = 0 /\ h \notin vs_failed
    /\ Len(vs_json_file.docstore) > Len(vs_pre)

(* C29: a save that fails, or stops between the index file and the JSON     *)
(* file, leaves what load_faiss returns as it was before that save.         *)
C29_FailedSaveLeavesStoreLoadable ==
    [][vs_last_save' = "failed" =>
          load_faiss(vs_faiss_file', vs_json_file') = load_faiss(vs_faiss_file, vs_json_file)]_vars

---------------------------------------------------------------------------
(* Claims about FSTQueryEngine.query *)

(* C14: the merged result is the concatenation of the two search results   *)
(* with every passage removed that repeats the chunk_id of an earlier one   *)
(* (or, when it has no chunk_id, the content of an earlier passage without  *)
(* chunk_id): first-seen order is kept, no chunk_id occurs twice, and a     *)
(* passage found by both searches occurs once (a passage being the same as  *)
(* another when it has the same chunk_id or, without one, the same text).   *)
SameIdentity(a, b) ==
    IF a.metadata.chunk_id # Missing
    THEN b.metadata.chunk_id = a.metadata.chunk_id
    ELSE b.metadata.chunk_id = Missing /\ b.page_content = a.page_content
RECURSIVE FirstSeen(_, _)
FirstSeen(docs, k) ==
    IF k > Len(docs) THEN <<>>
    ELSE (IF \E j \in 1 .. k - 1 : SameIdentity(docs[j], docs[k])
          THEN <<>> ELSE << docs[k] >>)
         \o FirstSeen(docs, k + 1)
Occurrences(docs, d) == Cardinality({ k \in 1 .. Len(docs) : SameIdentity(d, docs[k]) })
C14_MergedResultDeduplicated ==
    g_pc = "returned" =>
        /\ g_unique_docs = FirstSeen(g_docs \o g_module_docs, 1)
        /\ \A i, j \in 1 .. Len(g_unique_docs) :
              (i # j /\ g_unique_docs[i].metadata.chunk_id # Missing)
                 => g_unique_docs[i].metadata.chunk_id # g_unique_docs[j].metadata.chunk_id
        /\ \A i \in 1 .. Len(g_docs) : \A j \in 1 .. Len(g_module_docs) :
              g_docs[i] = g_module_docs[j] => Occurrences(g_unique_docs, g_docs[i]) = 1

C14_FoundByBothPaths ==
    /\ g_pc = "returned"
    /\ Len(g_docs) = 2 /\ Len(g_module_docs) = 2
    /\ g_docs[2] = g_module_docs[1] /\ g_docs[1] # g_docs[2]
    /\ g_module_docs[2] = RetrievedDoc(0, 2)
    /\ Len(g_unique_docs) = 3



NoFailureBeyondNormalization == q_failures \ {"normalize"} = {}
KnownFormations == {"MST_RSI_FST_SETTAT", "marketing digital"}
Intents == {"admission", "programme", "débouchés", "objectifs", "contact", "général"}

(* C15: when retrieval finds nothing the chain is not invoked and the       *)
(* answer is, for a known formation, the template of the detected intent    *)
(* naming that formation, for each of the six intents, and for formation    *)
(* UNKNOWN the unknown-formation template.                                  *)
C15_NoPassageGivesIntentTemplate ==
    (q_pc = "done" /\ q_outcome = "returned" /\ NoFailureBeyondNormalization /\ q_docs = 0) =>
        /\ q_llm = "" /\ response.context_used = ""
        /\ q_intent \in Intents
        /\ q_formation \in KnownFormations =>
              response.answer = [kind |-> "no_info", formation |-> q_formation,
                                 intent |-> q_intent]
        /\ q_formation = "UNKNOWN" =>
              response.answer = [kind |-> "no_info_unknown", formation |-> "", intent |-> ""]

(* C16: a query to an engine without a vector store, or with one that holds *)
(* nothing, returns the no-information response of the detected formation   *)
(* and intent, with documents_found 0 and no error.                         *)
C16_NoIndexGivesNoInformation ==
    (q_pc = "done" /\ q_store \in {"none", "empty"} /\ "detect" \notin q_failures) =>
        /\ response.answer = _generate_no_info_response(q_formation, q_intent)
        /\ response.documents_found = 0
        /\ response.error = Null

(* C17: when passages were found and the chain returned an empty text or a  *)
(* result without the answer field, the answer is the apology.              *)
C17_EmptyLlmResultGivesApology ==
    (/\ q_pc = "done" /\ q_outcome = "returned" /\ NoFailureBeyondNormalization
     /\ q_docs >= 1 /\ q_llm \in {"", "no_result_field"}) =>
        response.answer = Apology

(* C9 as claimed: query never raises; whichever stage failed, normalization *)
(* included, the answer is the apology and the error field holds the error  *)
(* string; when no stage failed the error field is null.                    *)
C9_AnyFailureGivesApology ==
    q_pc = "done" =>
        /\ q_outcome = "returned"
        /\ q_failures # {} => (response.answer = Apology /\ response.error = q_err.msg)
        /\ q_failures = {} => response.error = Null

(* C9 as amended: query never raises; a failure of any stage after          *)
(* normalization gives the apology and the error string; a failure inside   *)
(* normalization is absorbed there (the question is used as it is) and,     *)
(* like a run without failure, leaves the error field null.                 *)
C9_FailureAfterNormalizationGivesApology ==
    q_pc = "done" =>
        /\ q_outcome = "returned"
        /\ q_failures \ {"normalize"} # {} =>
              (response.answer = Apology /\ response.error = q_err.msg)
        /\ q_failures \ {"normalize"} = {} => response.error = Null

C9_LlmFailureAnswered ==
    /\ q_pc = "done" /\ "llm" \in q_failures
    /\ q_err.type = "RuntimeError"
    /\ response.answer = Apology /\ response.error = "backend failed"

(* C30: a query leaves the passages held by the vector index as they were  *)
(* loaded: no field of their text or metadata is added, removed or altered. *)
C30_QueryLeavesIndexUnchanged == x_docstore = x_loaded

---------------------------------------------------------------------------
(* Claims about FSSTEmbedder *)

IsPermutationOfIndices(seq, n) ==
    /\ Len(seq) = n
    /\ { seq[k] : k \in 1 .. n } = 0 .. n - 1
SimilarityOf(i) == _cosine_similarity(s_query, s_documents[i + 1])
(* the indices in descending similarity, equal similarities in input order *)
StableDescending ==
    CHOOSE seq \in [1 .. Len(s_documents) -> 0 .. Len(s_documents) - 1] :
        /\ IsPermutationOfIndices(seq, Len(s_documents))
        /\ \A a, b \in 1 .. Len(s_documents) :
              a < b => \/ SimilarityOf(seq[a]) > SimilarityOf(seq[b])
                       \/ (SimilarityOf(seq[a]) = SimilarityOf(seq[b]) /\ seq[a] < seq[b])

(* C18: the result is the first min(k, n) candidates in descending order of *)
(* similarity, candidates of equal similarity in their input order.         *)
C18_TopKStableDescending ==
    s_pc = "returned" =>
        s_result = SubSeq(StableDescending, 1, Min(s_top_k, Len(s_documents)))

(* the start of the batch that holds the k-th text (k counted from 1) *)
BatchStartOf(k) == ((k - 1) \div embed_batch_size) * embed_batch_size

(* C19: embed_documents returns one passage per coerced passage, each with  *)
(* a vector, the k-th vector being that of the k-th passage: the zero       *)
(* vector when the model raised on its batch, its own model vector          *)
(* otherwise.                                                               *)
C19_FailedBatchGetsZeroVectors ==
    e_pc = "returned" =>
        /\ Len(e_processed) = Len(e_documents)
        /\ \A k \in 1 .. Len(e_processed) :
              e_processed[k].embedding =
                  IF BatchStartOf(k) \in e_failed
                  THEN ZeroVector
                  ELSE ModelVector(e_texts[k])
C19_OneBatchFailedOneEmbedded ==
    /\ e_pc = "returned"
    /\ Len(e_processed) = 3
    /\ e_failed = {0}
    /\ e_processed[3].embedding # ZeroVector
    /\ e_processed[1].embedding = ZeroVector /\ e_processed[2].embedding = ZeroVector

(* C20: every returned passage has a chunk_id and a source, and a second    *)
(* call on equal documents gives each passage the chunk_id and the source   *)
(* the first call gave it.                                                  *)
C20_BackfillDeterministic ==
    e_pc = "returned" =>
        /\ \A k \in 1 .. Len(e_processed) :
              /\ e_processed[k].chunk_id.tag \notin {"absent", "empty"}
              /\ e_processed[k].source.tag # "absent"
        /\ e_prev # <<>> =>
              \A k \in 1 .. Len(e_processed) :
                  /\ e_processed[k].chunk_id = e_prev[k].chunk_id
                  /\ e_processed[k].source = e_prev[k].source

CoercibleInputs == { k \in 1 .. Len(c_documents) : c_documents[k].type # "other" }

(* C21: create_vector_store keeps every str, dict or Document input, also   *)
(* those without a chunk_id, with chunk_id and source set; it drops only the *)
(* inputs of another type, and returns None exactly when no input is kept.  *)
C21_EveryCoercibleInputStored ==
    c_result \in {"none", "store"} /\ c_documents # <<>> /\ c_embed_ok =>
        /\ Len(c_valid_docs) = Cardinality(CoercibleInputs)
        /\ \A k \in 1 .. Len(c_valid_docs) :
              /\ c_valid_docs[k].metadata.chunk_id # Missing
              /\ c_valid_docs[k].metadata.source # Missing
        /\ (c_result = "none") <=> (CoercibleInputs = {})

---------------------------------------------------------------------------
(* Claims about FSSTChunker *)

TotalLines == SumOver(t_lines, LineKindSet)
AtLeast(c, num, den) == c.num * den >= num * c.den
RowsWithMoreThan2Cells ==
    SumOver(t_lines, { k \in LineKindSet : PipeCount(k) > 0 /\ CellCount(k) > 2 })
RowsWithMoreThan2Pipes ==
    SumOver(t_lines, { k \in LineKindSet : PipeCount(k) > 2 })
OnlyProse == t_lines["prose"] = TotalLines

RequiredKeys ==
    {"chunk_id", "source", "formation_id", "document_type", "chunk_index", "total_chunks",
     "structure_confidence", "is_structured", "processed_at"}
FormationIds == {"MST_RSI", "MST_GL", "MST_IA", "MST_BD"}

(* C22: every chunk chunk_documents returns, on the normal path and on both *)
(* fallback paths, has all the required metadata keys, and its formation_id *)
(* is a formation identifier or UNKNOWN.                                    *)
C22_ChunksCarryRequiredMetadata ==
    k_pc = "returned" =>
        \A k \in 1 .. Len(k_result) :
            /\ RequiredKeys \subseteq k_result[k].metadata.keys
            /\ k_result[k].metadata.formation_id \in FormationIds \cup {"UNKNOWN"}

(* C23: chunk_documents returns on every path, and no document of blank     *)
(* content is among the chunks returned.                                    *)
C23_NoBlankChunkOnAnyPath ==
    k_pc = "returned" =>
        \A k \in 1 .. Len(k_result) : k_result[k].content # "blank"

---------------------------------------------------------------------------
(* Claims about the intermediate results of PipelineCache *)

(* C25: after clear_cache() without argument no path is processed, in this  *)
(* instance and in one opened later on the directory, and every             *)
(* (stage, file_id) loads as an empty result.                               *)
C25_ClearWipesEverything ==
    last_op.op = "clear" =>
        /\ \A p \in Paths :
              /\ ~IsProcessed(p)
              /\ ~is_file_processed(load_processed_files(index_file), p, content[p])
        /\ \A key \in ArtifactKeys : load_artifact(key, a_files[key]) = EmptyResult(key)
C25_ClearedRecordAndEntry == last_op.op = "clear" /\ a_wiped

(* C26: load_intermediate_result does not raise, and gives the empty result *)
(* (an empty set for db_stored_chunks, an empty list otherwise) when the    *)
(* file is missing, unparsable or unreadable.                               *)
C26_LoadNeverRaises ==
    a_result # NoResult =>
        /\ ~a_result.raised
        /\ a_files[a_result.key].kind # "json" => a_result = EmptyResult(a_result.key)
C26_DamagedEntryLoadedEmpty ==
    /\ a_result # NoResult
    /\ a_files[a_result.key].kind \in {"garbage", "unreadable"}
    /\ a_result.key.stage = "db_stored_chunks"
    /\ a_result.type = "set" /\ a_result.n = 0

---------------------------------------------------------------------------
(* Claims about retry_with_backoff *)

(* C7: an operation that fails n-1 times and succeeds on the n-th call,     *)
(* n within the budget, ends in a return after exactly n invocations, with  *)
(* the delay backoff * 2^(i-1) slept after the i-th failure.                *)
C7_SuccessWithinBudget ==
    (r_pc # "call" /\ r_plan + 1 <= r_retries) =>
        /\ r_pc = "returned"
        /\ r_invocations = r_plan + 1
        /\ r_slept = [i \in 1 .. r_plan |-> r_backoff * Pow2(i - 1)]

C7_ReturnedAfterFailures ==
    /\ r_pc = "returned" /\ r_plan >= 2 /\ r_plan + 1 <= r_retries
    /\ r_invocations = r_plan + 1

(* C8: an operation that always fails is invoked exactly `retries` times    *)
(* before the error is propagated, with no delay after the last attempt.    *)
C8_ExactlyRetriesInvocations ==
    (r_pc = "raised" /\ r_plan = AlwaysFails) =>
        /\ r_invocations = r_retries
        /\ Len(r_slept) = r_invocations - 1

====
